---------------------------- MODULE Spec2Model ----------------------------
(***************************************************************************)
(* A model of the ETH-trading MCP server: the token registry and its       *)
(* reader/writer lock (layers/service.rs, implementations/price.rs), the   *)
(* price resolution policy (implementations/price.rs), the swap simulation *)
(* (implementations/swap.rs) and the fixed-point formatter                 *)
(* (implementations/balance.rs).                                           *)
(*                                                                         *)
(* Three specifications share the module:                                  *)
(*   Spec       the ServiceLayer: NProcs concurrent requests over the one  *)
(*              shared registry behind its RwLock;                         *)
(*   SpecSwap   one call of simulate_swap, step by step;                   *)
(*   SpecPrice  one call of resolve_token_price on a registry snapshot.    *)
(*                                                                         *)
(* Numbers.  A U256 is modelled at its full width as the sequence of its   *)
(* decimal digits, most significant first, without leading zeros (zero is  *)
(* <<0>>).  A Rust String holding a number is a sequence of one-character  *)
(* strings.  ethers' U256 aborts the thread (panics) when `*` or `pow`     *)
(* overflows 256 bits; the model yields Panic there.                       *)
(***************************************************************************)
EXTENDS Integers, Sequences, FiniteSets, TLC

(***************************************************************************)
(* Results of a call: Ok(v), Err(kind, msg) (an AppError variant and its   *)
(* message) or Panic (the thread unwinds; no value is returned).           *)
(***************************************************************************)
Ok(v) == [tag |-> "Ok", val |-> v]

Err(kind, msg) == [tag |-> "Err", kind |-> kind, msg |-> msg]

Panic == [tag |-> "Panic"]

None == [tag |-> "None"]

Some(v) == [tag |-> "Some", val |-> v]

IsOk(r) == r.tag = "Ok"

IsErr(r) == r.tag = "Err"

(***************************************************************************)
(* U256 arithmetic on decimal digit sequences.                             *)
(***************************************************************************)
Zeros(n) == [i \in 1..n |-> 0]

\* the canonical form: leading zeros dropped, zero is <<0>>
StripZeros(ds) ==
    IF \A i \in 1..Len(ds) : ds[i] = 0 THEN <<0>>
    ELSE LET k == CHOOSE i \in 1..Len(ds) :
                      ds[i] # 0 /\ \A j \in 1..(i - 1) : ds[j] = 0
         IN  SubSeq(ds, k, Len(ds))

U256_ZERO == <<0>>

is_zero(a) == a = U256_ZERO

\* 2^256 - 1
U256_MAX ==
    << 1,1,5,7,9,2,0,8,9,2,3,7,3,1,6,1,9,5,4,2,3,5,7,0,9,8,
       5,0,0,8,6,8,7,9,0,7,8,5,3,2,6,9,9,8,4,6,6,5,6,4,0,5,
       6,4,0,3,9,4,5,7,5,8,4,0,0,7,9,1,3,1,2,9,6,3,9,9,3,5 >>

\* a <= b on canonical digit sequences
BigLeq(a, b) ==
    \/ Len(a) < Len(b)
    \/ a = b
    \/ /\ Len(a) = Len(b)
       /\ \E i \in 1..Len(a) : a[i] < b[i] /\ \A j \in 1..(i - 1) : a[j] = b[j]

FitsU256(a) == BigLeq(a, U256_MAX)

RECURSIVE SmallDigits(_)
SmallDigits(n) == IF n = 0 THEN <<>> ELSE Append(SmallDigits(n \div 10), n % 10)

\* U256::from(n) for a machine integer n
U256_from(n) == StripZeros(SmallDigits(n))

\* digits lo..hi of a times k plus the carry coming in from the right:
\* the digits produced and the carry going out to the left.  The range is
\* halved at each step, so the evaluation stays shallow on 78 digits.
RECURSIVE MulRange(_, _, _, _, _)
MulRange(a, lo, hi, k, carry) ==
    IF lo = hi
    THEN LET t == a[lo] * k + carry
         IN  [digits |-> <<t % 10>>, carry |-> t \div 10]
    ELSE LET mid   == (lo + hi) \div 2
             right == MulRange(a, mid + 1, hi, k, carry)
             c     == right.carry
             left  == MulRange(a, lo, mid, k, c)
         IN  IF c >= 0    \* the right half first: its carry feeds the left half
             THEN [digits |-> left.digits \o right.digits, carry |-> left.carry]
             ELSE [digits |-> <<>>, carry |-> 0]

\* the mathematical product a * k, k a machine integer
BigMulSmall(a, k) ==
    LET m == MulRange(a, 1, Len(a), k, 0)
    IN  StripZeros(SmallDigits(m.carry) \o m.digits)

\* digits lo..hi of a divided by k with the remainder coming in from the left
RECURSIVE DivRange(_, _, _, _, _)
DivRange(a, lo, hi, k, rem) ==
    IF lo = hi
    THEN LET t == rem * 10 + a[lo]
         IN  [digits |-> <<t \div k>>, rem |-> t % k]
    ELSE LET mid   == (lo + hi) \div 2
             left  == DivRange(a, lo, mid, k, rem)
             r     == left.rem
             right == DivRange(a, mid + 1, hi, k, r)
         IN  IF r >= 0    \* the left half first: its remainder feeds the right half
             THEN [digits |-> left.digits \o right.digits, rem |-> right.rem]
             ELSE [digits |-> <<>>, rem |-> 0]

\* floor(a / k), k a machine integer > 0
BigDivSmall(a, k) == StripZeros(DivRange(a, 1, Len(a), k, 0).digits)

\* U256 `*` with a small right operand: panics on overflow
U256_mul(a, k) ==
    LET prod == BigMulSmall(a, k)
    IN  IF FitsU256(prod) THEN Ok(prod) ELSE Panic

\* U256 `/` with a small right operand
U256_div(a, k) == BigDivSmall(a, k)

\* ten.pow(d): 10^d, a panic when the result overflows 256 bits
U256_pow10(d) ==
    LET p == <<1>> \o Zeros(d)
    IN  IF FitsU256(p) THEN Ok(p) ELSE Panic

\* raw / 10^d
U256_div_pow10(raw, d) ==
    IF Len(raw) <= d THEN U256_ZERO ELSE SubSeq(raw, 1, Len(raw) - d)

\* raw % 10^d
U256_rem_pow10(raw, d) ==
    IF Len(raw) <= d THEN raw
    ELSE StripZeros(SubSeq(raw, Len(raw) - d + 1, Len(raw)))

(***************************************************************************)
(* Strings of digits.                                                      *)
(***************************************************************************)
DigitChar == <<"0", "1", "2", "3", "4", "5", "6", "7", "8", "9">>

IsDigitChar(c) == \E d \in 0..9 : DigitChar[d + 1] = c

CharDigit(c) == CHOOSE d \in 0..9 : DigitChar[d + 1] = c

\* U256::to_string
to_string(a) == [i \in 1..Len(a) |-> DigitChar[a[i] + 1]]

\* "0".repeat(n)
repeat0(n) == [i \in 1..n |-> "0"]

\* str::trim_end_matches('0')
trim_end_matches0(s) ==
    IF \A i \in 1..Len(s) : s[i] = "0" THEN <<>>
    ELSE LET k == CHOOSE i \in 1..Len(s) :
                      s[i] # "0" /\ \A j \in (i + 1)..Len(s) : s[j] = "0"
         IN  SubSeq(s, 1, k)

\* U256::from_dec_str: digits only, not empty, at most 2^256 - 1
from_dec_str(s) ==
    IF s = <<>> \/ \E i \in 1..Len(s) : ~IsDigitChar(s[i]) THEN None
    ELSE LET v == StripZeros([i \in 1..Len(s) |-> CharDigit(s[i])])
         IN  IF FitsU256(v) THEN Some(v) ELSE None

(***************************************************************************)
(* balance.rs: the fixed-point formatter.                                  *)
(***************************************************************************)
format_with_decimals(raw, decimals) ==
    IF decimals = 0 THEN Ok(to_string(raw))
    ELSE
      LET power == U256_pow10(decimals) IN
      IF power = Panic THEN Panic
      ELSE IF is_zero(power.val) THEN Ok(to_string(raw))
      ELSE
        LET integer  == U256_div_pow10(raw, decimals)
            fraction == U256_rem_pow10(raw, decimals)
        IN
        IF is_zero(fraction) THEN Ok(to_string(integer))
        ELSE
          LET fs           == to_string(fraction)
              fraction_str == IF Len(fs) < decimals
                              THEN repeat0(decimals - Len(fs)) \o fs
                              ELSE fs
              trimmed      == trim_end_matches0(fraction_str)
          IN  IF trimmed = <<>> THEN Ok(to_string(integer))
              ELSE Ok(to_string(integer) \o <<".">> \o trimmed)

(***************************************************************************)
(* swap.rs: amounts and the slippage bound.                                *)
(***************************************************************************)
BPS_BASIS == 10000

parse_amount(raw) ==
    LET v == from_dec_str(raw)
    IN  IF v = None THEN Err("InvalidInput", "invalid numeric value")
        ELSE Ok(v.val)

\* (amount * (10_000 - slippage_bps)) / 10_000; called with slippage_bps <= 10_000
apply_slippage(amount, slippage_bps) ==
    LET numerator == BPS_BASIS - slippage_bps
        prod      == U256_mul(amount, numerator)
    IN  IF prod = Panic THEN Panic
        ELSE Ok(U256_div(prod.val, BPS_BASIS))

(***************************************************************************)
(* Bounds of the model.                                                    *)
(***************************************************************************)
\* concurrent requests on the one ServiceLayer
NProcs == 2

\* requests one task serves before the model stops it
MaxRequests == 1

Procs == 1..NProcs

(***************************************************************************)
(* State.                                                                  *)
(*   registry  the shared TokenRegistry (ServiceContext.registry)          *)
(*   lock      its tokio RwLock: the writer (0 = none) and the readers     *)
(*   env       what the chain may answer to each kind of external read     *)
(*   pc        per task: where in the code it is                           *)
(*   req       per task: the request it serves                             *)
(*   stage     per task: the statement of the operation's body it is in    *)
(*   loc       per task: the locals of the running functions               *)
(*   reads     per task: the external reads issued for the request so far  *)
(*   result    per task: what the request returned                         *)
(*   served    per task: requests completed                                *)
(***************************************************************************)
VARIABLES registry, lock, env, stdio, pc, req, stage, loc, reads, result, served

vars == <<registry, lock, env, stdio, pc, req, stage, loc, reads, result, served>>

\* stdin as the lines still to come and those consumed, stdout as the lines written
NoStdio == [input |-> <<>>, pos |-> 0, output |-> <<>>]

(***************************************************************************)
(* price.rs: TokenInfo and TokenRegistry.                                  *)
(***************************************************************************)
QuoteCurrency == {"USD", "ETH"}

DEFAULT_FEE == 3000

\* String::to_uppercase on the strings the model uses
UpperTable ==
    [s \in {"weth", "usdc", "dai", "Dai", "foo", "tkn", "erc20", "TOKEN_0x00de", "TOKEN_0x00df"} |->
        CASE s = "weth" -> "WETH"
          [] s = "Dai"  -> "DAI"
          [] s = "usdc" -> "USDC"
          [] s = "dai"  -> "DAI"
          [] s = "foo"  -> "FOO"
          [] s = "tkn"  -> "TKN"
          [] s = "erc20" -> "ERC20"
          [] s = "TOKEN_0x00de" -> "TOKEN_0X00DE"
          [] s = "TOKEN_0x00df" -> "TOKEN_0X00DF"]

to_uppercase(s) == IF s \in DOMAIN UpperTable THEN UpperTable[s] ELSE s

NoFeeds == [q \in {} |-> ""]

\* TokenInfo::new
TokenInfo_new(symbol, address, decimals) ==
    [symbol          |-> to_uppercase(symbol),
     address         |-> address,
     decimals        |-> decimals,
     chainlink_feeds |-> NoFeeds,
     default_fee     |-> DEFAULT_FEE]

\* HashMap::insert
Put(m, k, v) == [x \in (DOMAIN m) \cup {k} |-> IF x = k THEN v ELSE m[x]]

with_feed(info, quote, feed_address) ==
    [info EXCEPT !.chainlink_feeds = Put(@, quote, feed_address)]

with_fee(info, fee) == [info EXCEPT !.default_fee = fee]

\* TokenRegistry::new
TokenRegistry_new == [by_symbol |-> [s \in {} |-> None], by_address |-> [a \in {} |-> None]]

add_token(reg, info) ==
    [by_symbol  |-> Put(reg.by_symbol, info.symbol, info),
     by_address |-> Put(reg.by_address, info.address, info)]

\* the presence check looking the address up in the symbol index
contains_address_by_symbol(reg, address) == address \in DOMAIN reg.by_symbol

contains_address(reg, address) == address \in DOMAIN reg.by_address

\* the lookup by the string as it was typed
resolve_symbol_exact(reg, symbol) ==
    IF symbol \in DOMAIN reg.by_symbol THEN Some(reg.by_symbol[symbol].address) ELSE None

resolve_symbol(reg, symbol) ==
    IF to_uppercase(symbol) \in DOMAIN reg.by_symbol
    THEN Some(reg.by_symbol[to_uppercase(symbol)].address)
    ELSE None

\* the lookup answering with some record of the registry for an address it lacks
info_by_address_or_any(reg, address) ==
    IF address \in DOMAIN reg.by_address THEN Some(reg.by_address[address])
    ELSE IF DOMAIN reg.by_address # {}
    THEN Some(reg.by_address[CHOOSE a \in DOMAIN reg.by_address : TRUE])
    ELSE None

info_by_address(reg, address) ==
    IF address \in DOMAIN reg.by_address THEN Some(reg.by_address[address]) ELSE None

info_by_symbol(reg, symbol) ==
    IF to_uppercase(symbol) \in DOMAIN reg.by_symbol
    THEN Some(reg.by_symbol[to_uppercase(symbol)])
    ELSE None

\* the lookup answering with the WETH record for either currency
quote_token_weth(reg, quote) == info_by_symbol(reg, "WETH")

quote_token(reg, quote) ==
    IF quote = "USD" THEN info_by_symbol(reg, "USDC") ELSE info_by_symbol(reg, "WETH")

\* the symbol ensure_token registers for the metadata it fetched
ensure_token_symbol(meta_symbol, address) ==
    IF meta_symbol = "" THEN "TOKEN_" \o address ELSE meta_symbol

(***************************************************************************)
(* Addresses.  An address is a string; the strings that parse as an        *)
(* address (input.parse::<Address>()) are those of Addresses.              *)
(***************************************************************************)
ADDR_WETH == "0xc02a"

ADDR_USDC == "0xa0b8"

ADDR_DAI == "0x6b17"

ADDR_NEW == "0x00de"

ADDR_HOLDER == "0x00aa"

SIGNER == "0x5190"

Addresses == {ADDR_WETH, ADDR_USDC, ADDR_DAI, ADDR_NEW, ADDR_HOLDER, SIGNER}

parse_address(input) == IF input \in Addresses THEN Some(input) ELSE None

\* config/token_defaults.json as the tests use it: WETH, USDC and DAI, each
\* with a USD feed
DefaultsTable ==
    << [symbol |-> "WETH", address |-> ADDR_WETH, decimals |-> 18,
        chainlink_feeds |-> [q \in {"USD"} |-> "feed_eth_usd"], default_fee |-> 3000],
       [symbol |-> "USDC", address |-> ADDR_USDC, decimals |-> 6,
        chainlink_feeds |-> [q \in {"USD"} |-> "feed_usdc_usd"], default_fee |-> 3000],
       [symbol |-> "DAI", address |-> ADDR_DAI, decimals |-> 18,
        chainlink_feeds |-> [q \in {"USD"} |-> "feed_dai_usd"], default_fee |-> 3000] >>

RECURSIVE with_feeds(_, _, _)
with_feeds(info, feeds, todo) ==
    IF todo = {} THEN info
    ELSE LET q == CHOOSE q \in todo : TRUE
         IN  with_feeds(with_feed(info, q, feeds[q]), feeds, todo \ {q})

RECURSIVE populate(_, _, _)
populate(reg, entries, i) ==
    IF i > Len(entries) THEN reg
    ELSE LET e    == entries[i]
             info == with_fee(with_feeds(TokenInfo_new(e.symbol, e.address, e.decimals),
                                         e.chainlink_feeds, DOMAIN e.chainlink_feeds),
                              e.default_fee)
         IN  populate(add_token(reg, info), entries, i + 1)

\* defaults::populate_defaults
populate_defaults(reg) == populate(reg, DefaultsTable, 1)

\* TokenRegistry::with_defaults
with_defaults == populate_defaults(TokenRegistry_new)

(***************************************************************************)
(* Tasks: requests, locals and external reads.                             *)
(***************************************************************************)
NoArgs == [none |-> TRUE]

NoReq == [op |-> "none", params |-> NoArgs]

EmptyLoc ==
    [snap           |-> None,    \* the registry snapshot the task holds
     a1             |-> "",      \* first resolved address (holder, base, from_token)
     a2             |-> "",      \* second resolved address (token, to_token)
     token          |-> None,    \* get_balance: the optional token address
     snaps          |-> 0,       \* snapshots of the registry taken for this request
     meta           |-> [decimals |-> 0, symbol |-> ""],
     amount_in      |-> <<>>,
     limit          |-> <<>>,
     amount_out     |-> <<>>,
     amount_out_min |-> <<>>,
     quoted         |-> NoArgs,  \* the parameters sent to the quoter
     call           |-> NoArgs,  \* the parameters of the swap call built
     gas            |-> <<>>,
     plan           |-> "",      \* the price source chosen
     feeds          |-> <<>>,    \* the oracle feeds that source reads, in order
     feed_decimals  |-> 0,
     prices         |-> <<>>,    \* the feed prices read so far
     replies        |-> <<>>]    \* the replies to the reads issued, in order

\* an external read: a view call on a contract, or a provider call
Read(kind, target, args) == [kind |-> kind, target |-> target, args |-> args]

\* the task returns r to its caller, or unwinds
Finish(p, r) ==
    /\ pc' = [pc EXCEPT ![p] = IF r = Panic THEN "panicked" ELSE "done"]
    /\ result' = [result EXCEPT ![p] = r]

Issue(p, rd) == reads' = [reads EXCEPT ![p] = Append(@, rd)]

Goto(p, label) == pc' = [pc EXCEPT ![p] = label]

\* the locals of the tasks once task p has received reply
Got(p, reply) == [loc EXCEPT ![p].replies = Append(@, reply)]

(***************************************************************************)
(* The registry lock (tokio::sync::RwLock) and registry snapshots.         *)
(*                                                                         *)
(* The lock is fair: a task that cannot take it at once queues, and the    *)
(* queue is served in order.  A snapshot is a clone: it owns its value.    *)
(* A handle that does not own its value reads the shared registry.         *)
(***************************************************************************)
LockFree == [writer |-> 0, readers |-> {}, queue |-> <<>>]

CanTake(l, mode) ==
    IF mode = "read" THEN l.writer = 0 ELSE l.writer = 0 /\ l.readers = {}

Take(l, p, mode) ==
    IF mode = "read" THEN [l EXCEPT !.readers = @ \cup {p}] ELSE [l EXCEPT !.writer = p]

\* the guard is dropped
Release(l, p) ==
    [l EXCEPT !.writer = IF @ = p THEN 0 ELSE @, !.readers = @ \ {p}]

Holds(p) == lock.writer = p \/ p \in lock.readers

\* read().await or write().await is polled: the guard, or a place in the queue
Poll(p, mode, held, waiting) ==
    IF lock.queue = <<>> /\ CanTake(lock, mode)
    THEN lock' = Take(lock, p, mode) /\ Goto(p, held)
    ELSE lock' = [lock EXCEPT !.queue = Append(@, p)] /\ Goto(p, waiting)

\* the queued task at the head of the queue is handed the guard
Wake(p, mode, held) ==
    /\ lock.queue # <<>>
    /\ Head(lock.queue) = p
    /\ CanTake(lock, mode)
    /\ lock' = Take([lock EXCEPT !.queue = Tail(@)], p, mode)
    /\ Goto(p, held)

\* a handle that shares the registry instead of copying it
share(reg) == [owned |-> FALSE, val |-> reg]

\* TokenRegistry: Clone
clone(reg) == [owned |-> TRUE, val |-> reg]

\* what a registry handle reads
deref(handle, shared) == IF handle.owned THEN handle.val ELSE shared

\* the registry as task p's snapshot shows it
Snapshot(p) == deref(loc[p].snap, registry)

(***************************************************************************)
(* erc20.rs: fetch_metadata, one reply at a time.                          *)
(***************************************************************************)
\* the decimals read tolerated like the symbol read, with 18 as the fallback
decimals_result_or_default(reply) == IF reply = None THEN Ok(18) ELSE Ok(reply.val)

\* contract.decimals().call().await.map_err(AppError::Rpc)
decimals_result(reply) ==
    IF reply = None THEN Err("Rpc", "failed to fetch ERC-20 decimals") ELSE Ok(reply.val)

\* the symbol read falling back to an empty label
symbol_result_or_empty(reply) == IF reply = None THEN "" ELSE reply.val

\* contract.symbol().call().await.unwrap_or_else(|_| "ERC20")
symbol_result(reply) == IF reply = None THEN "ERC20" ELSE reply.val

\* the balance read answering zero when the read fails
balance_of_result_or_zero(reply) == IF reply = None THEN Ok(U256_ZERO) ELSE Ok(reply.val)

\* contract.balance_of(owner).call().await.map_err(AppError::Rpc)
balance_of_result(reply) ==
    IF reply = None THEN Err("Rpc", "failed to fetch token balance") ELSE Ok(reply.val)

(***************************************************************************)
(* swap.rs: simulate_swap.                                                 *)
(***************************************************************************)
UNISWAP_QUOTER_V2 == "0x61ff"

UNISWAP_SWAP_ROUTER == "0xe592"

MAX_SLIPPAGE_BPS == 10000

DEADLINE_WINDOW == 900

\* the checks made before the first await: Ok(amount_in) or the error returned
validate_inputs(params) ==
    IF params.slippage_bps > MAX_SLIPPAGE_BPS
    THEN Err("Swap", "slippage cannot exceed 100% (10_000 bps)")
    ELSE LET amount_in == parse_amount(params.amount_in_wei)
         IN  IF IsErr(amount_in) THEN amount_in
             ELSE IF is_zero(amount_in.val)
             THEN Err("Swap", "amount_in_wei must be greater than zero")
             ELSE amount_in

\* sqrt_price_limit.as_deref().map(parse_amount).transpose()?.unwrap_or_else(U256::zero)
parse_price_limit(sqrt_price_limit) ==
    IF sqrt_price_limit = None THEN Ok(U256_ZERO) ELSE parse_amount(sqrt_price_limit.val)

QuoteExactInputSingleParams(from_token, to_token, amount_in, fee, limit) ==
    [token_in |-> from_token, token_out |-> to_token, amount_in |-> amount_in,
     fee |-> fee, sqrt_price_limit_x96 |-> limit]

\* recipient.and_then(|v| Address::from_str(&v).ok()).unwrap_or_else(|| signer.address())
resolve_recipient(recipient) ==
    IF recipient # None /\ parse_address(recipient.val) # None
    THEN parse_address(recipient.val).val
    ELSE SIGNER     \* signer.address()

\* the call data built with no price limit, whatever limit was quoted with
ExactInputSingleParams_unlimited(from_token, to_token, fee, recipient, deadline, amount_in, amount_out_min, limit) ==
    [token_in |-> from_token, token_out |-> to_token, fee |-> fee,
     recipient |-> recipient, deadline |-> deadline, amount_in |-> amount_in,
     amount_out_minimum |-> amount_out_min, sqrt_price_limit_x96 |-> U256_ZERO]

ExactInputSingleParams(from_token, to_token, fee, recipient, deadline, amount_in, amount_out_min, limit) ==
    [token_in |-> from_token, token_out |-> to_token, fee |-> fee,
     recipient |-> recipient, deadline |-> deadline, amount_in |-> amount_in,
     amount_out_minimum |-> amount_out_min, sqrt_price_limit_x96 |-> limit]

\* the TypedTransaction handed to estimate_gas and call
SwapTx(call) == [to |-> UNISWAP_SWAP_ROUTER, from |-> SIGNER, data |-> call, value |-> U256_ZERO]

\* the SwapSimOut built at the end, or the panic of the formatter
SwapSimOut(l) ==
    LET est == format_with_decimals(l.amount_out, l.meta.decimals)
        min == format_with_decimals(l.amount_out_min, l.meta.decimals)
    IN  IF est = Panic \/ min = Panic THEN Panic
        ELSE Ok([amount_out_estimate |-> est.val,
                 gas_estimate        |-> to_string(l.gas),
                 calldata            |-> l.call,
                 router              |-> UNISWAP_SWAP_ROUTER,
                 amount_out_min      |-> min.val])

\* lines 46-60: validate, then issue the decimals read of fetch_metadata
SwValidate(p) ==
    /\ pc[p] = "sw_start"
    /\ LET v == validate_inputs(req[p].params) IN
       IF IsErr(v)
       THEN Finish(p, v) /\ UNCHANGED <<loc, reads>>
       ELSE /\ loc' = [loc EXCEPT ![p].amount_in = v.val]
            /\ Issue(p, Read("decimals", loc[p].a2, NoArgs))
            /\ Goto(p, "sw_meta_decimals")
            /\ UNCHANGED result
    /\ UNCHANGED <<registry, lock, env, stdio, req, stage, served>>

\* erc20.rs 31-36: the decimals reply; then the symbol read
SwDecimalsReturn(p) ==
    /\ pc[p] = "sw_meta_decimals"
    /\ \E reply \in env.decimals :
         LET d == decimals_result(reply) IN
         IF IsErr(d)
         THEN Finish(p, d) /\ loc' = Got(p, reply) /\ UNCHANGED reads
         ELSE /\ loc' = [Got(p, reply) EXCEPT ![p].meta.decimals = d.val]
              /\ Issue(p, Read("symbol", loc[p].a2, NoArgs))
              /\ Goto(p, "sw_meta_symbol")
              /\ UNCHANGED result
    /\ UNCHANGED <<registry, lock, env, stdio, req, stage, served>>

\* erc20.rs 36-42, swap.rs 62-82: the symbol reply; the price limit is parsed;
\* the quoter read is issued
SwSymbolReturn(p) ==
    /\ pc[p] = "sw_meta_symbol"
    /\ \E reply \in env.symbol :
         LET limit == parse_price_limit(req[p].params.sqrt_price_limit) IN
         IF IsErr(limit)
         THEN /\ Finish(p, limit)
              /\ loc' = [Got(p, reply) EXCEPT ![p].meta.symbol = symbol_result(reply)]
              /\ UNCHANGED reads
         ELSE LET q == QuoteExactInputSingleParams(loc[p].a1, loc[p].a2, loc[p].amount_in,
                                                   req[p].params.fee, limit.val)
              IN  /\ loc' = [Got(p, reply) EXCEPT ![p].meta.symbol = symbol_result(reply),
                                        ![p].limit = limit.val,
                                        ![p].quoted = q]
                  /\ Issue(p, Read("quote_exact_input_single", UNISWAP_QUOTER_V2, q))
                  /\ Goto(p, "sw_quote")
                  /\ UNCHANGED result
    /\ UNCHANGED <<registry, lock, env, stdio, req, stage, served>>

\* lines 78-124: the quote; the slippage bound; the call is built; estimate_gas
SwQuoteReturn(p) ==
    /\ pc[p] = "sw_quote"
    /\ \E reply \in env.quote, now \in env.now :
         IF reply = None
         THEN Finish(p, Err("Swap", "uniswap quoter call failed")) /\ loc' = Got(p, reply) /\ UNCHANGED reads
         ELSE IF is_zero(reply.val)
         THEN Finish(p, Err("Swap", "quote returned zero output amount"))
              /\ loc' = Got(p, reply) /\ UNCHANGED reads
         ELSE LET min == apply_slippage(reply.val, req[p].params.slippage_bps) IN
              IF min = Panic
              THEN /\ Finish(p, Panic)
                   /\ loc' = [Got(p, reply) EXCEPT ![p].amount_out = reply.val]
                   /\ UNCHANGED reads
              ELSE LET call == ExactInputSingleParams(
                                   loc[p].a1, loc[p].a2, req[p].params.fee,
                                   resolve_recipient(req[p].params.recipient),
                                   now + DEADLINE_WINDOW, loc[p].amount_in,
                                   min.val, loc[p].limit)
                   IN  /\ loc' = [Got(p, reply) EXCEPT ![p].amount_out = reply.val,
                                             ![p].amount_out_min = min.val,
                                             ![p].call = call]
                       /\ Issue(p, Read("estimate_gas", UNISWAP_SWAP_ROUTER, SwapTx(call)))
                       /\ Goto(p, "sw_gas")
                       /\ UNCHANGED result
    /\ UNCHANGED <<registry, lock, env, stdio, req, stage, served>>

\* lines 121-129: the gas estimate; then the read-only call
SwGasReturn(p) ==
    /\ pc[p] = "sw_gas"
    /\ \E reply \in env.gas :
         IF reply = None
         THEN Finish(p, Err("Swap", "gas estimation failed")) /\ loc' = Got(p, reply) /\ UNCHANGED reads
         ELSE /\ loc' = [Got(p, reply) EXCEPT ![p].gas = reply.val]
              /\ Issue(p, Read("call", UNISWAP_SWAP_ROUTER, SwapTx(loc[p].call)))
              /\ Goto(p, "sw_call")
              /\ UNCHANGED result
    /\ UNCHANGED <<registry, lock, env, stdio, req, stage, served>>

\* lines 126-142: the simulation's reply; the amounts are formatted
SwCallReturn(p) ==
    /\ pc[p] = "sw_call"
    /\ \E reply \in env.call :
         /\ loc' = Got(p, reply)
         /\ IF reply = None
            THEN Finish(p, Err("Swap", "eth_call simulation failed"))
            ELSE Finish(p, SwapSimOut(loc[p]))
    /\ UNCHANGED <<registry, lock, env, stdio, req, stage, reads, served>>

simulate_swap(p) ==
    \/ SwValidate(p)
    \/ SwDecimalsReturn(p)
    \/ SwSymbolReturn(p)
    \/ SwQuoteReturn(p)
    \/ SwGasReturn(p)
    \/ SwCallReturn(p)

(***************************************************************************)
(* price.rs: resolve_token_price.                                          *)
(*                                                                         *)
(* A feed answer (int256) is [neg, mag] with mag its decimal digits.  A    *)
(* rust_decimal Decimal is [kind |-> "dec", mant, scale]: a 96-bit         *)
(* mantissa and a scale of at most 28.  The quotient and the product of    *)
(* the pivots are kept as terms, [kind |-> "div" or "mul", l, r]; the feed *)
(* answers of the model are small enough that neither overflows.           *)
(***************************************************************************)
\* 2^127 - 1
I128_MAX == <<1,7,0,1,4,1,1,8,3,4,6,0,4,6,9,2,3,1,7,3,1,6,8,7,3,0,3,7,1,5,8,8,4,1,0,5,7,2,7>>

\* 2^96 - 1, the largest Decimal mantissa
DECIMAL_MAX == <<7,9,2,2,8,1,6,2,5,1,4,2,6,4,3,3,7,5,9,3,5,4,3,9,5,0,3,3,5>>

DECIMAL_MAX_SCALE == 28

Answer(neg, mag) == [neg |-> neg, mag |-> mag]

Dec(mant, scale) == [kind |-> "dec", mant |-> mant, scale |-> scale]

\* the conversion clamping a non-positive answer to the smallest price
chainlink_answer_clamped(answer, decimals) ==
    IF ~BigLeq(answer.mag, I128_MAX)
    THEN Err("Price", "invalid Chainlink answer")
    ELSE IF decimals > DECIMAL_MAX_SCALE \/ ~BigLeq(answer.mag, DECIMAL_MAX)
    THEN Panic
    ELSE IF answer.neg \/ is_zero(answer.mag)
    THEN Ok(Dec(<<1>>, decimals))
    ELSE Ok(Dec(answer.mag, decimals))

\* the conversion rejecting answers < 0 only
chainlink_answer_zero_allowed(answer, decimals) ==
    IF ~BigLeq(answer.mag, I128_MAX)
    THEN Err("Price", "invalid Chainlink answer")
    ELSE IF answer.neg /\ ~is_zero(answer.mag)
    THEN Err("Price", "Chainlink returned non-positive price")
    ELSE IF decimals > DECIMAL_MAX_SCALE \/ ~BigLeq(answer.mag, DECIMAL_MAX)
    THEN Panic
    ELSE Ok(Dec(answer.mag, decimals))

\* lines 242-252: the feed's answer as a Decimal
chainlink_answer(answer, decimals) ==
    IF ~BigLeq(answer.mag, I128_MAX)
    THEN Err("Price", "invalid Chainlink answer")
    ELSE IF answer.neg \/ is_zero(answer.mag)
    THEN Err("Price", "Chainlink returned non-positive price")
    ELSE IF decimals > DECIMAL_MAX_SCALE \/ ~BigLeq(answer.mag, DECIMAL_MAX)
    THEN Panic     \* Decimal::from_i128_with_scale panics
    ELSE Ok(Dec(answer.mag, decimals))

\* Decimal::from_str_exact on an output of the formatter
from_str_exact(s) ==
    LET dot   == IF \E i \in 1..Len(s) : s[i] = "."
                 THEN CHOOSE i \in 1..Len(s) : s[i] = "."
                 ELSE Len(s) + 1
        ds    == SubSeq(s, 1, dot - 1) \o SubSeq(s, dot + 1, Len(s))
        scale == IF dot > Len(s) THEN 0 ELSE Len(s) - dot
        mant  == StripZeros([i \in 1..Len(ds) |-> CharDigit(ds[i])])
    IN  IF scale > DECIMAL_MAX_SCALE \/ ~BigLeq(mant, DECIMAL_MAX) THEN None
        ELSE Some(Dec(mant, scale))

\* Decimal::to_string of a parsed or feed value
decimal_to_string(d) ==
    LET ms     == to_string(d.mant)
        padded == IF Len(ms) <= d.scale THEN repeat0(d.scale + 1 - Len(ms)) \o ms ELSE ms
        n      == Len(padded)
    IN  IF d.scale = 0 THEN ms
        ELSE SubSeq(padded, 1, n - d.scale) \o <<".">> \o SubSeq(padded, n - d.scale + 1, n)

ten_pow(decimals) == U256_pow10(decimals)

HasFeed(info, quote) == quote \in DOMAIN info.chainlink_feeds

\* the policy with the pivots tried ahead of the direct feed
price_plan_pivot_first(reg, base_info, quote) ==
    LET weth == info_by_symbol(reg, "WETH") IN
    IF /\ quote = "ETH"
       /\ HasFeed(base_info, "USD")
       /\ weth # None
       /\ HasFeed(weth.val, "USD")
    THEN [plan  |-> "chainlink (via USD)",
          feeds |-> <<base_info.chainlink_feeds["USD"], weth.val.chainlink_feeds["USD"]>>]
    ELSE IF /\ quote = "USD"
            /\ HasFeed(base_info, "ETH")
            /\ weth # None
            /\ HasFeed(weth.val, "USD")
    THEN [plan  |-> "chainlink (via ETH)",
          feeds |-> <<base_info.chainlink_feeds["ETH"], weth.val.chainlink_feeds["USD"]>>]
    ELSE IF HasFeed(base_info, quote)
    THEN [plan |-> "chainlink", feeds |-> <<base_info.chainlink_feeds[quote]>>]
    ELSE [plan |-> "uniswap", feeds |-> <<>>]

\* lines 152-206: the source the policy picks and the feeds it will read
price_plan(reg, base_info, quote) ==
    LET weth == info_by_symbol(reg, "WETH") IN
    IF HasFeed(base_info, quote)
    THEN [plan |-> "chainlink", feeds |-> <<base_info.chainlink_feeds[quote]>>]
    ELSE IF /\ quote = "ETH"
            /\ HasFeed(base_info, "USD")
            /\ weth # None
            /\ HasFeed(weth.val, "USD")
    THEN [plan  |-> "chainlink (via USD)",
          feeds |-> <<base_info.chainlink_feeds["USD"], weth.val.chainlink_feeds["USD"]>>]
    ELSE IF /\ quote = "USD"
            /\ HasFeed(base_info, "ETH")
            /\ weth # None
            /\ HasFeed(weth.val, "USD")
    THEN [plan  |-> "chainlink (via ETH)",
          feeds |-> <<base_info.chainlink_feeds["ETH"], weth.val.chainlink_feeds["USD"]>>]
    ELSE [plan |-> "uniswap", feeds |-> <<>>]

\* the label with the default fee tier whatever the record's
uniswap_source_default_fee(base_info) == "uniswap_v3 (fee " \o ToString(DEFAULT_FEE) \o ")"

\* line 214
uniswap_source(base_info) == "uniswap_v3 (fee " \o ToString(base_info.default_fee) \o ")"

\* price.to_string() and price.scale(): computed for a feed or parsed value,
\* kept as terms for a quotient or product
PriceOut(base_info, quote, price, source) ==
    [base     |-> base_info.symbol,
     quote    |-> quote,
     price    |-> IF price.kind = "dec" THEN decimal_to_string(price)
                  ELSE [to_string |-> price],
     source   |-> source,
     decimals |-> IF price.kind = "dec" THEN price.scale ELSE [scale |-> price]]

\* lines 154-160, 170-182, 195-202: the result once every feed of the plan is read
oracle_result(plan, prices, base_info, quote) ==
    IF plan = "chainlink"
    THEN Ok(PriceOut(base_info, quote, prices[1], plan))
    ELSE IF plan = "chainlink (via USD)"
    THEN IF is_zero(prices[2].mant)
         THEN Err("Price", "received zero ETH/USD price from Chainlink")
         ELSE Ok(PriceOut(base_info, quote,
                          [kind |-> "div", l |-> prices[1], r |-> prices[2]], plan))
    ELSE Ok(PriceOut(base_info, quote,
                     [kind |-> "mul", l |-> prices[1], r |-> prices[2]], plan))

\* the DEX quote scaled by the quote token's decimals, without the formatter
uniswap_result_scaled(amount_out, base_info, quote_info, quote) ==
    IF is_zero(amount_out) THEN Err("Price", "uniswap returned zero amount out")
    ELSE IF quote_info.decimals > DECIMAL_MAX_SCALE \/ ~BigLeq(amount_out, DECIMAL_MAX)
    THEN Err("Price", "failed to parse uniswap result")
    ELSE Ok(PriceOut(base_info, quote, Dec(amount_out, quote_info.decimals),
                     uniswap_source(base_info)))

\* lines 280-286 and 213-222: the DEX quote as a price
uniswap_result(amount_out, base_info, quote_info, quote) ==
    IF is_zero(amount_out) THEN Err("Price", "uniswap returned zero amount out")
    ELSE LET formatted == format_with_decimals(amount_out, quote_info.decimals) IN
         IF formatted = Panic THEN Panic
         ELSE LET d == from_str_exact(formatted.val) IN
              IF d = None THEN Err("Price", "failed to parse uniswap result")
              ELSE Ok(PriceOut(base_info, quote, d.val, uniswap_source(base_info)))

\* lines 147-161, 164-169, 189-194, 208-213 and 263-278: up to the first read
RpStart(p) ==
    /\ pc[p] = "rp_start"
    /\ LET reg  == Snapshot(p)
           base == info_by_address(reg, loc[p].a1)
       IN
       IF base = None
       THEN /\ Finish(p, Err("InvalidInput", "unsupported token: " \o loc[p].a1))
            /\ UNCHANGED <<loc, reads>>
       ELSE
         LET pl == price_plan(reg, base.val, req[p].params.quote) IN
         IF pl.plan # "uniswap"
         THEN /\ loc' = [loc EXCEPT ![p].plan = pl.plan, ![p].feeds = pl.feeds]
              /\ Issue(p, Read("feed_decimals", pl.feeds[1], NoArgs))
              /\ Goto(p, "rp_feed_decimals")
              /\ UNCHANGED result
         ELSE
           LET qt == quote_token(reg, req[p].params.quote) IN
           IF qt = None
           THEN /\ Finish(p, Err("Price", "missing quote token configuration"))
                /\ UNCHANGED <<loc, reads>>
           ELSE
             LET amount_in == ten_pow(base.val.decimals) IN
             IF amount_in = Panic
             THEN Finish(p, Panic) /\ UNCHANGED <<loc, reads>>
             ELSE LET q == QuoteExactInputSingleParams(
                               base.val.address, qt.val.address, amount_in.val,
                               base.val.default_fee, U256_ZERO)
                  IN  /\ loc' = [loc EXCEPT ![p].plan = pl.plan, ![p].quoted = q]
                      /\ Issue(p, Read("quote_exact_input_single", UNISWAP_QUOTER_V2, q))
                      /\ Goto(p, "rp_quote")
                      /\ UNCHANGED result
    /\ UNCHANGED <<registry, lock, env, stdio, req, stage, served>>

\* lines 230-240: the feed's decimals; then its latest round
RpFeedDecimalsReturn(p) ==
    /\ pc[p] = "rp_feed_decimals"
    /\ \E reply \in env.feed_decimals :
         IF reply = None
         THEN /\ Finish(p, Err("Price", "failed to read feed decimals"))
              /\ loc' = Got(p, reply) /\ UNCHANGED reads
         ELSE /\ loc' = [Got(p, reply) EXCEPT ![p].feed_decimals = reply.val]
              /\ Issue(p, Read("latest_round_data",
                               loc[p].feeds[Len(loc[p].prices) + 1], NoArgs))
              /\ Goto(p, "rp_feed_round")
              /\ UNCHANGED result
    /\ UNCHANGED <<registry, lock, env, stdio, req, stage, served>>

\* lines 236-252: the feed's answer; then the next feed of the plan, or the result
RpFeedRoundReturn(p) ==
    /\ pc[p] = "rp_feed_round"
    /\ \E reply \in env.round :
         IF reply = None
         THEN /\ Finish(p, Err("Price", "failed to read latest round"))
              /\ loc' = Got(p, reply) /\ UNCHANGED reads
         ELSE
           LET price == chainlink_answer(reply.val, loc[p].feed_decimals) IN
           IF ~IsOk(price)
           THEN Finish(p, price) /\ loc' = Got(p, reply) /\ UNCHANGED reads
           ELSE
             LET prices == Append(loc[p].prices, price.val) IN
             IF Len(prices) < Len(loc[p].feeds)
             THEN /\ loc' = [Got(p, reply) EXCEPT ![p].prices = prices]
                  /\ Issue(p, Read("feed_decimals", loc[p].feeds[Len(prices) + 1], NoArgs))
                  /\ Goto(p, "rp_feed_decimals")
                  /\ UNCHANGED result
             ELSE /\ loc' = [Got(p, reply) EXCEPT ![p].prices = prices]
                  /\ Finish(p, oracle_result(loc[p].plan, prices,
                                             info_by_address(Snapshot(p), loc[p].a1).val,
                                             req[p].params.quote))
                  /\ UNCHANGED reads
    /\ UNCHANGED <<registry, lock, env, stdio, req, stage, served>>

\* lines 274-287: the quoter's reply
RpQuoteReturn(p) ==
    /\ pc[p] = "rp_quote"
    /\ \E reply \in env.quote :
         /\ loc' = Got(p, reply)
         /\ IF reply = None
            THEN Finish(p, Err("Price", "uniswap quote failed"))
            ELSE Finish(p, uniswap_result(
                               reply.val,
                               info_by_address(Snapshot(p), loc[p].a1).val,
                               quote_token(Snapshot(p), req[p].params.quote).val,
                               req[p].params.quote))
    /\ UNCHANGED <<registry, lock, env, stdio, req, stage, reads, served>>

resolve_token_price(p) ==
    \/ RpStart(p)
    \/ RpFeedDecimalsReturn(p)
    \/ RpFeedRoundReturn(p)
    \/ RpQuoteReturn(p)

(***************************************************************************)
(* balance.rs: resolve_balance.                                            *)
(***************************************************************************)
ETH_DECIMALS == 18

\* the BalanceOut built at the end, or the panic of the formatter
BalanceOut(symbol, raw, decimals) ==
    LET formatted == format_with_decimals(raw, decimals) IN
    IF formatted = Panic THEN Panic
    ELSE Ok([symbol |-> symbol, raw |-> to_string(raw), decimals |-> decimals,
             formatted |-> formatted.val])

\* service.rs parse_address_or_symbol
parse_address_or_symbol(input, reg) ==
    IF parse_address(input) # None THEN Ok(parse_address(input).val)
    ELSE LET a == resolve_symbol(reg, input) IN
         IF a = None
         THEN Err("InvalidInput", "unknown token symbol or address: " \o input)
         ELSE Ok(a.val)

\* service.rs 59-65 and resolve_balance: the inputs are resolved against the
\* snapshot; then the first read of the balance lookup
BalStart(p) ==
    /\ pc[p] = "bal_start"
    /\ LET address == parse_address_or_symbol(req[p].params.address, Snapshot(p))
           token   == IF req[p].params.token = None THEN Ok(None)
                      ELSE LET t == parse_address_or_symbol(req[p].params.token.val, Snapshot(p))
                           IN  IF IsErr(t) THEN t ELSE Ok(Some(t.val))
       IN
       IF IsErr(address) THEN Finish(p, address) /\ UNCHANGED <<loc, reads>>
       ELSE IF IsErr(token) THEN Finish(p, token) /\ UNCHANGED <<loc, reads>>
       ELSE /\ loc' = [loc EXCEPT ![p].a1 = address.val, ![p].token = token.val]
            /\ IF token.val = None
               THEN Issue(p, Read("get_balance", address.val, NoArgs)) /\ Goto(p, "bal_eth")
               ELSE Issue(p, Read("decimals", token.val.val, NoArgs)) /\ Goto(p, "bal_decimals")
            /\ UNCHANGED result
    /\ UNCHANGED <<registry, lock, env, stdio, req, stage, served>>

\* resolve_eth_balance
BalEthReturn(p) ==
    /\ pc[p] = "bal_eth"
    /\ \E reply \in env.balance :
         /\ loc' = Got(p, reply)
         /\ IF reply = None
            THEN Finish(p, Err("Rpc", "failed to fetch balance"))
            ELSE Finish(p, BalanceOut("ETH", reply.val, ETH_DECIMALS))
    /\ UNCHANGED <<registry, lock, env, stdio, req, stage, reads, served>>

\* resolve_erc20_balance: fetch_metadata, the decimals reply
BalDecimalsReturn(p) ==
    /\ pc[p] = "bal_decimals"
    /\ \E reply \in env.decimals :
         LET d == decimals_result(reply) IN
         IF IsErr(d)
         THEN Finish(p, d) /\ loc' = Got(p, reply) /\ UNCHANGED reads
         ELSE /\ loc' = [Got(p, reply) EXCEPT ![p].meta.decimals = d.val]
              /\ Issue(p, Read("symbol", loc[p].token.val, NoArgs))
              /\ Goto(p, "bal_symbol")
              /\ UNCHANGED result
    /\ UNCHANGED <<registry, lock, env, stdio, req, stage, served>>

\* resolve_erc20_balance: fetch_metadata, the symbol reply; then balance_of
BalSymbolReturn(p) ==
    /\ pc[p] = "bal_symbol"
    /\ \E reply \in env.symbol :
         /\ loc' = [Got(p, reply) EXCEPT ![p].meta.symbol = symbol_result(reply)]
         /\ Issue(p, Read("balance_of", loc[p].token.val, [owner |-> loc[p].a1]))
         /\ Goto(p, "bal_balance_of")
    /\ UNCHANGED <<registry, lock, env, stdio, req, stage, result, served>>

\* resolve_erc20_balance: the balance_of reply
BalBalanceOfReturn(p) ==
    /\ pc[p] = "bal_balance_of"
    /\ \E reply \in env.balance :
         /\ loc' = Got(p, reply)
         /\ LET raw == balance_of_result(reply) IN
            IF IsErr(raw) THEN Finish(p, raw)
            ELSE Finish(p, BalanceOut(loc[p].meta.symbol, raw.val, loc[p].meta.decimals))
    /\ UNCHANGED <<registry, lock, env, stdio, req, stage, reads, served>>

resolve_balance(p) ==
    \/ BalStart(p)
    \/ BalEthReturn(p)
    \/ BalDecimalsReturn(p)
    \/ BalSymbolReturn(p)
    \/ BalBalanceOfReturn(p)

(***************************************************************************)
(* service.rs: the three operations.  Script(op) is the operation's body   *)
(* as the sequence of its awaited calls; stage[p] is the call task p is    *)
(* in.                                                                     *)
(***************************************************************************)
Call(label, input, slot) == [pc |-> label, input |-> input, slot |-> slot]

Script(op) ==
    CASE op = "get_balance" ->
           << Call("snapshot", "", ""), Call("bal_start", "", "") >>
      [] op = "get_token_price" ->
           << Call("ri", "base", "a1"), Call("ens", "", "a1"),
              Call("snapshot", "", ""), Call("rp_start", "", "") >>
      [] op = "swap_tokens" ->
           << Call("ri", "from_token", "a1"), Call("ri", "to_token", "a2"),
              Call("ens", "", "a1"), Call("ens", "", "a2"),
              Call("signer", "", ""), Call("sw_start", "", "") >>

Step(p) == Script(req[p].op)[stage[p]]

\* the awaited call returned Ok: on to the next one
Advance(p) ==
    /\ stage' = [stage EXCEPT ![p] = @ + 1]
    /\ pc' = [pc EXCEPT ![p] = Script(req[p].op)[stage[p] + 1].pc]

\* resolve_input, lines 119-123: an address is used as it is; a symbol needs a snapshot
RiStart(p) ==
    /\ pc[p] = "ri"
    /\ LET a == parse_address(req[p].params[Step(p).input]) IN
       IF a # None
       THEN /\ loc' = [loc EXCEPT ![p][Step(p).slot] = a.val]
            /\ Advance(p)
       ELSE /\ Goto(p, "snapshot")
            /\ UNCHANGED <<loc, stage>>
    /\ UNCHANGED <<registry, lock, env, stdio, req, reads, result, served>>

\* snapshot_registry: registry.read().await is polled
SnapshotPoll(p) ==
    /\ pc[p] = "snapshot"
    /\ Poll(p, "read", "snap_held", "snap_wait")
    /\ UNCHANGED <<registry, env, stdio, req, stage, loc, reads, result, served>>

SnapshotWake(p) ==
    /\ pc[p] = "snap_wait"
    /\ Wake(p, "read", "snap_held")
    /\ UNCHANGED <<registry, env, stdio, req, stage, loc, reads, result, served>>

\* snapshot_registry: .clone() and the guard is dropped; in resolve_input
\* (lines 124-127) the symbol is then looked up in the snapshot
SnapshotClone(p) ==
    /\ pc[p] = "snap_held"
    /\ lock' = Release(lock, p)
    /\ LET snap == clone(registry) IN
       IF Step(p).pc = "ri"
       THEN LET input == req[p].params[Step(p).input]
                a     == resolve_symbol(deref(snap, registry), input)
            IN  IF a = None
                THEN /\ Finish(p, Err("InvalidInput",
                                      "unknown token symbol or address: " \o input))
                     /\ loc' = [loc EXCEPT ![p].snaps = @ + 1]
                     /\ UNCHANGED stage
                ELSE /\ loc' = [loc EXCEPT ![p][Step(p).slot] = a.val, ![p].snaps = @ + 1]
                     /\ Advance(p)
                     /\ UNCHANGED result
       ELSE /\ loc' = [loc EXCEPT ![p].snap = snap, ![p].snaps = @ + 1]
            /\ Advance(p)
            /\ UNCHANGED result
    /\ UNCHANGED <<registry, env, stdio, req, reads, served>>

\* ensure_registry_token: registry.write().await is polled
EnsPoll(p) ==
    /\ pc[p] = "ens"
    /\ Poll(p, "write", "ens_held", "ens_wait")
    /\ UNCHANGED <<registry, env, stdio, req, stage, loc, reads, result, served>>

EnsWake(p) ==
    /\ pc[p] = "ens_wait"
    /\ Wake(p, "write", "ens_held")
    /\ UNCHANGED <<registry, env, stdio, req, stage, loc, reads, result, served>>

\* ensure_token, lines 99-103, under the write guard: a known address returns
\* at once; for an unknown one fetch_metadata issues the decimals read
EnsCheck(p) ==
    /\ pc[p] = "ens_held"
    /\ LET address == loc[p][Step(p).slot] IN
       IF contains_address(registry, address)
       THEN /\ lock' = Release(lock, p)
            /\ Advance(p)
            /\ UNCHANGED reads
       ELSE /\ Issue(p, Read("decimals", address, NoArgs))
            /\ Goto(p, "ens_decimals")
            /\ UNCHANGED <<lock, stage>>
    /\ UNCHANGED <<registry, env, stdio, req, loc, result, served>>

\* erc20.rs 31-36 inside ensure_token: the decimals reply; then the symbol read
EnsDecimalsReturn(p) ==
    /\ pc[p] = "ens_decimals"
    /\ \E reply \in env.decimals :
         LET d == decimals_result(reply) IN
         IF IsErr(d)
         THEN /\ Finish(p, d)
              /\ lock' = Release(lock, p)
              /\ loc' = Got(p, reply) /\ UNCHANGED reads
         ELSE /\ loc' = [Got(p, reply) EXCEPT ![p].meta.decimals = d.val]
              /\ Issue(p, Read("symbol", loc[p][Step(p).slot], NoArgs))
              /\ Goto(p, "ens_symbol")
              /\ UNCHANGED <<lock, result>>
    /\ UNCHANGED <<registry, env, stdio, req, stage, served>>

\* ensure_token, lines 103-112: the symbol reply; the record is inserted; the
\* guard is dropped
EnsSymbolReturn(p) ==
    /\ pc[p] = "ens_symbol"
    /\ \E reply \in env.symbol :
         LET address == loc[p][Step(p).slot]
             symbol  == ensure_token_symbol(symbol_result(reply), address)
             info    == TokenInfo_new(symbol, address, loc[p].meta.decimals)
         IN  /\ registry' = add_token(registry, info)
             /\ loc' = [Got(p, reply) EXCEPT ![p].meta.symbol = symbol_result(reply)]
    /\ lock' = Release(lock, p)
    /\ Advance(p)
    /\ UNCHANGED <<env, stdio, req, reads, result, served>>

\* swap_tokens, lines 101-103
SwSigner(p) ==
    /\ pc[p] = "signer"
    /\ IF env.signer = None
       THEN Finish(p, Err("Wallet", "swap simulation requires PRIVATE_KEY/signing config"))
            /\ UNCHANGED stage
       ELSE Advance(p) /\ UNCHANGED result
    /\ UNCHANGED <<registry, lock, env, stdio, req, loc, reads, served>>

(***************************************************************************)
(* SpecSwap: one call simulate_swap(provider, signer, from_token,          *)
(* to_token, params), the arguments and the chain's replies drawn from     *)
(* the sets below.                                                         *)
(***************************************************************************)
\* floor((2^256 - 1) / 10000): the largest quote whose product with 10000 fits
QUOTE_EDGE == U256_div(U256_MAX, BPS_BASIS)

AmountStrings ==
    { <<"0">>, <<"1">>, <<"1", "x">>, <<>>, to_string(<<1>> \o Zeros(17)) }

Slippages == {0, 100, 10000, 10001}

PriceLimits == {None, Some(<<"0">>), Some(<<"7", "9">>), Some(<<"a", "b", "c">>)}

Recipients == {None, Some(ADDR_HOLDER), Some("nobody")}

WideEnv ==
    [decimals |-> {None, Some(0), Some(6), Some(18), Some(77), Some(78), Some(255)},
     symbol   |-> {None, Some("TKN")},
     quote    |-> {None, Some(U256_ZERO), Some(<<1>>), Some(U256_from(1000000)),
                   Some(U256_from(1500000)), Some(QUOTE_EDGE), Some(BigMulSmall(QUOTE_EDGE, 2)), Some(U256_MAX)},
     gas      |-> {None, Some(U256_from(21000))},
     call     |-> {None, Some("0x")},
     now      |-> {1700000000},
     signer   |-> Some(SIGNER),
     feed_decimals |-> {None, Some(8), Some(18), Some(29)},
     round    |-> {None, Some(Answer(TRUE, <<1>>)), Some(Answer(FALSE, U256_ZERO)),
                   Some(Answer(FALSE, U256_from(200000000))),
                   Some(Answer(FALSE, BigMulSmall(DECIMAL_MAX, 2))),
                   Some(Answer(FALSE, BigMulSmall(I128_MAX, 2)))},
     balance  |-> {None, Some(U256_ZERO), Some(U256_from(1500000)), Some(U256_MAX)}]

SwapCalls ==
    { [op |-> "swap_tokens",
       params |-> [from_token |-> ADDR_WETH, to_token |-> ADDR_USDC,
                   amount_in_wei |-> a, slippage_bps |-> s, fee |-> 3000,
                   recipient |-> r, sqrt_price_limit |-> l]] :
      a \in AmountStrings, s \in Slippages, l \in PriceLimits, r \in Recipients }

InitSwap ==
    /\ registry = with_defaults
    /\ lock = LockFree
    /\ env = WideEnv
    /\ stdio = NoStdio
    /\ \E c \in SwapCalls :
         /\ req = [p \in Procs |-> IF p = 1 THEN c ELSE NoReq]
         /\ loc = [p \in Procs |-> IF p = 1
                                   THEN [EmptyLoc EXCEPT !.a1 = c.params.from_token,
                                                         !.a2 = c.params.to_token]
                                   ELSE EmptyLoc]
    /\ pc = [p \in Procs |-> IF p = 1 THEN "sw_start" ELSE "off"]
    /\ stage = [p \in Procs |-> IF p = 1 THEN 6 ELSE 0]
    /\ reads = [p \in Procs |-> <<>>]
    /\ result = [p \in Procs |-> None]
    /\ served = [p \in Procs |-> 0]

NextSwap == \E p \in Procs : simulate_swap(p)

SpecSwap == InitSwap /\ [][NextSwap]_vars

(***************************************************************************)
(* SpecPrice: one call of resolve_token_price, task 1, over the registries *)
(* a snapshot can hold and every chain reply.                              *)
(***************************************************************************)
BaseFeeds ==
    { NoFeeds,
      [q \in {"USD"} |-> "feed_dai_usd"],
      [q \in {"ETH"} |-> "feed_dai_eth"],
      [q \in {"USD", "ETH"} |-> IF q = "USD" THEN "feed_dai_usd" ELSE "feed_dai_eth"] }

BaseDecimals == {0, 18, 77, 78, 255}

BaseFees == {500, 3000}

BaseInfo(feeds, decimals, fee) ==
    with_fee(with_feeds(TokenInfo_new("DAI", ADDR_DAI, decimals), feeds, DOMAIN feeds), fee)

WethInfo(feed) ==
    IF feed
    THEN with_feed(TokenInfo_new("WETH", ADDR_WETH, 18), "USD", "feed_eth_usd")
    ELSE TokenInfo_new("WETH", ADDR_WETH, 18)

UsdcInfo == TokenInfo_new("USDC", ADDR_USDC, 6)

\* the registry holding the base record and, as asked, the WETH and USDC records
PriceRegistry(base, weth, usdc) ==
    LET r1 == add_token(TokenRegistry_new, base)
        r2 == IF weth = "absent" THEN r1 ELSE add_token(r1, WethInfo(weth = "usd"))
    IN  IF usdc THEN add_token(r2, UsdcInfo) ELSE r2

PriceRegistries ==
    { PriceRegistry(BaseInfo(f, d, fee), w, u) :
        f \in BaseFeeds, d \in BaseDecimals, fee \in BaseFees,
        w \in {"absent", "nofeed", "usd"}, u \in BOOLEAN }

PriceCalls ==
    { [op |-> "get_token_price", params |-> [base |-> b, quote |-> q]] :
        b \in {ADDR_DAI, ADDR_NEW}, q \in QuoteCurrency }

InitPrice ==
    /\ lock = LockFree
    /\ env = WideEnv
    /\ stdio = NoStdio
    /\ \E reg \in PriceRegistries, c \in PriceCalls :
         /\ registry = reg
         /\ req = [p \in Procs |-> IF p = 1 THEN c ELSE NoReq]
         /\ loc = [p \in Procs |-> IF p = 1
                                   THEN [EmptyLoc EXCEPT !.a1 = c.params.base,
                                                         !.snap = clone(reg),
                                                         !.snaps = 1]
                                   ELSE EmptyLoc]
    /\ pc = [p \in Procs |-> IF p = 1 THEN "rp_start" ELSE "off"]
    /\ stage = [p \in Procs |-> IF p = 1 THEN 4 ELSE 0]
    /\ reads = [p \in Procs |-> <<>>]
    /\ result = [p \in Procs |-> None]
    /\ served = [p \in Procs |-> 0]

NextPrice == \E p \in Procs : resolve_token_price(p)

SpecPrice == InitPrice /\ [][NextPrice]_vars

(***************************************************************************)
(* SpecFormat: one call of format_with_decimals, task 1, over raw amounts  *)
(* up to 2^256 - 1 and decimal counts on both sides of the widths 10^77    *)
(* (the largest power of ten a U256 holds) and 2^256.                      *)
(***************************************************************************)
FormatRaws ==
    { U256_ZERO, <<1>>, <<7>>, <<1, 0>>, <<1, 0, 0>>, <<1, 2, 3, 4, 5, 6>>,
      U256_from(1500000), U256_from(1000001),
      <<1>> \o Zeros(18), <<1, 2, 3, 4, 5, 6>> \o Zeros(15),
      <<1>> \o Zeros(77), QUOTE_EDGE, U256_MAX }

FormatDecimals == {0, 1, 3, 6, 18, 77, 78, 255, 256}

FormatCalls ==
    { [op |-> "format_with_decimals", params |-> [raw |-> r, decimals |-> d]] :
        r \in FormatRaws, d \in FormatDecimals }

InitFormat ==
    /\ registry = TokenRegistry_new
    /\ lock = LockFree
    /\ env = WideEnv
    /\ stdio = NoStdio
    /\ \E c \in FormatCalls : req = [p \in Procs |-> IF p = 1 THEN c ELSE NoReq]
    /\ pc = [p \in Procs |-> IF p = 1 THEN "fmt_start" ELSE "off"]
    /\ stage = [p \in Procs |-> 0]
    /\ loc = [p \in Procs |-> EmptyLoc]
    /\ reads = [p \in Procs |-> <<>>]
    /\ result = [p \in Procs |-> None]
    /\ served = [p \in Procs |-> 0]

\* the call: the string is returned, or the thread unwinds
FmtCall(p) ==
    /\ pc[p] = "fmt_start"
    /\ Finish(p, format_with_decimals(req[p].params.raw, req[p].params.decimals))
    /\ UNCHANGED <<registry, lock, env, stdio, req, stage, loc, reads, served>>

NextFormat == \E p \in Procs : FmtCall(p)

SpecFormat == InitFormat /\ [][NextFormat]_vars

(***************************************************************************)
(* SpecBalance: one get_balance request from the point where the service   *)
(* holds its snapshot: the holder and token strings are resolved and       *)
(* resolve_balance runs against every reply of the chain.                  *)
(***************************************************************************)
BalanceCalls ==
    { [op |-> "get_balance", params |-> [address |-> a, token |-> t]] :
        a \in {ADDR_HOLDER, "weth", "foo"},
        t \in {None, Some("usdc"), Some("Dai"), Some(ADDR_NEW), Some("foo")} }

InitBalance ==
    /\ registry = with_defaults
    /\ lock = LockFree
    /\ env = WideEnv
    /\ stdio = NoStdio
    /\ \E c \in BalanceCalls : req = [p \in Procs |-> IF p = 1 THEN c ELSE NoReq]
    /\ pc = [p \in Procs |-> IF p = 1 THEN "bal_start" ELSE "off"]
    /\ stage = [p \in Procs |-> IF p = 1 THEN 2 ELSE 0]
    /\ loc = [p \in Procs |-> IF p = 1
                              THEN [EmptyLoc EXCEPT !.snap = clone(with_defaults), !.snaps = 1]
                              ELSE EmptyLoc]
    /\ reads = [p \in Procs |-> <<>>]
    /\ result = [p \in Procs |-> None]
    /\ served = [p \in Procs |-> 0]

NextBalance == \E p \in Procs : resolve_balance(p)

SpecBalance == InitBalance /\ [][NextBalance]_vars

(***************************************************************************)
(* Spec: the service layer.  Tasks take requests and run the operations    *)
(* concurrently against the shared registry.                               *)
(***************************************************************************)
SwapParams(from, to, amount, slippage) ==
    [from_token |-> from, to_token |-> to, amount_in_wei |-> amount,
     slippage_bps |-> slippage, fee |-> 3000, recipient |-> None,
     sqrt_price_limit |-> None]

Requests ==
    { [op |-> "get_balance", params |-> [address |-> ADDR_HOLDER, token |-> None]],
      [op |-> "get_balance", params |-> [address |-> ADDR_HOLDER, token |-> Some("usdc")]],
      [op |-> "get_balance", params |-> [address |-> "foo", token |-> None]],
      [op |-> "get_token_price", params |-> [base |-> "dai", quote |-> "ETH"]],
      [op |-> "get_token_price", params |-> [base |-> ADDR_NEW, quote |-> "USD"]],
      [op |-> "swap_tokens", params |-> SwapParams("weth", ADDR_USDC, <<"1", "0", "0", "0">>, 100)],
      [op |-> "swap_tokens", params |-> SwapParams(ADDR_NEW, "usdc", <<"1">>, 10001)],
      [op |-> "swap_tokens", params |-> SwapParams(ADDR_NEW, ADDR_USDC, <<"0">>, 100)] }

NarrowEnv(signer) ==
    [decimals |-> {None, Some(6)},
     symbol   |-> {None, Some(""), Some("weth")},
     quote    |-> {None, Some(U256_from(1000000))},
     gas      |-> {Some(U256_from(21000))},
     call     |-> {Some("0x")},
     now      |-> {1700000000},
     signer   |-> signer,
     feed_decimals |-> {Some(8)},
     round    |-> {None, Some(Answer(FALSE, U256_from(200000000)))},
     balance  |-> {None, Some(U256_from(1500000))}]

Init ==
    /\ registry = with_defaults
    /\ lock = LockFree
    /\ env \in {NarrowEnv(None), NarrowEnv(Some(SIGNER))}
    /\ stdio = NoStdio
    /\ pc = [p \in Procs |-> "idle"]
    /\ req = [p \in Procs |-> NoReq]
    /\ stage = [p \in Procs |-> 0]
    /\ loc = [p \in Procs |-> EmptyLoc]
    /\ reads = [p \in Procs |-> <<>>]
    /\ result = [p \in Procs |-> None]
    /\ served = [p \in Procs |-> 0]

\* a task takes a request
Start(p) ==
    /\ pc[p] \in {"idle", "done"}
    /\ served[p] < MaxRequests
    /\ \E r \in Requests :
         /\ req' = [req EXCEPT ![p] = r]
         /\ pc' = [pc EXCEPT ![p] = Script(r.op)[1].pc]
    /\ stage' = [stage EXCEPT ![p] = 1]
    /\ loc' = [loc EXCEPT ![p] = EmptyLoc]
    /\ reads' = [reads EXCEPT ![p] = <<>>]
    /\ result' = [result EXCEPT ![p] = None]
    /\ served' = [served EXCEPT ![p] = @ + 1]
    /\ UNCHANGED <<registry, lock, env, stdio>>

Next ==
    \E p \in Procs :
        \/ Start(p)
        \/ RiStart(p)
        \/ SnapshotPoll(p)
        \/ SnapshotWake(p)
        \/ SnapshotClone(p)
        \/ EnsPoll(p)
        \/ EnsWake(p)
        \/ EnsCheck(p)
        \/ EnsDecimalsReturn(p)
        \/ EnsSymbolReturn(p)
        \/ SwSigner(p)
        \/ resolve_balance(p)
        \/ resolve_token_price(p)
        \/ simulate_swap(p)

Spec == Init /\ [][Next]_vars

(***************************************************************************)
(* mcp.rs: the stdio server.  SpecStdio is run_stdio over an input of      *)
(* up to MaxLines lines; task 1 is the main task, which reads a line,      *)
(* awaits the handler and writes the response before it reads again.       *)
(***************************************************************************)
MaxLines == 2

\* a JSON-RPC id is kept as its JSON text
JsonNull == "null"

\* a line of stdin: blank after trim(), or what serde_json::from_str::<RpcRequest>
\* makes of it: None for a parse error, the request otherwise; params is None
\* when serde_json::from_value::<P> rejects it
BlankLine == [blank |-> TRUE, parse |-> None]

GarbageLine == [blank |-> FALSE, parse |-> None]

RequestLine(method, params, id) ==
    [blank |-> FALSE, parse |-> Some([method |-> method, params |-> params, id |-> id])]

StdioLines ==
    { BlankLine,
      GarbageLine,
      RequestLine("get_balance", Some([address |-> ADDR_HOLDER, token |-> None]), "1"),
      RequestLine("get_balance", Some([address |-> ADDR_HOLDER, token |-> Some("usdc")]), "2"),
      RequestLine("get_token_price", Some([base |-> "dai", quote |-> "USD"]), "3"),
      RequestLine("get_token_price", Some([base |-> ADDR_NEW, quote |-> "USD"]), "4"),
      RequestLine("swap_tokens", Some(SwapParams("weth", ADDR_USDC, <<"1", "0", "0", "0">>, 100)), "5"),
      RequestLine("ping", Some(NoArgs), "6"),
      RequestLine("get_balance", None, JsonNull) }

StdioInputs == UNION { [1..n -> StdioLines] : n \in 0..MaxLines }

StdioEnv == [NarrowEnv(Some(SIGNER)) EXCEPT !.decimals = {None, Some(6), Some(78)}]

\* error.rs 47-61: AppError::to_json_rpc
to_json_rpc(kind) ==
    CASE kind = "Config" -> -32001
      [] kind = "InvalidInput" -> -32602
      [] kind = "Rpc" -> -32002
      [] kind = "Price" -> -32010
      [] kind = "Swap" -> -32020
      [] kind = "Wallet" -> -32030
      [] kind = "Io" -> -32040
      [] kind = "Serialization" -> -32700
      [] kind = "Internal" -> -32603

RpcResponse_success(id, value) == [id |-> id, result |-> Some(value), error |-> None]

RpcResponse_error(id, code, message) ==
    [id |-> id, result |-> None, error |-> Some([code |-> code, message |-> message])]

InitStdio ==
    /\ registry = with_defaults
    /\ lock = LockFree
    /\ env = StdioEnv
    /\ \E input \in StdioInputs : stdio = [NoStdio EXCEPT !.input = input]
    /\ pc = [p \in Procs |-> IF p = 1 THEN "srv_read" ELSE "off"]
    /\ req = [p \in Procs |-> NoReq]
    /\ stage = [p \in Procs |-> 0]
    /\ loc = [p \in Procs |-> EmptyLoc]
    /\ reads = [p \in Procs |-> <<>>]
    /\ result = [p \in Procs |-> None]
    /\ served = [p \in Procs |-> 0]

\* run_stdio, lines 32-57, handle_request and dispatch up to the handler's call:
\* read_line fails, or returns 0 bytes, or returns a line; a blank line is
\* skipped, a line that does not parse, an unknown method and bad params get
\* their error response, a request is handed to its handler
SrvRead(p) ==
    /\ pc[p] = "srv_read"
    /\ \/ /\ pc' = [pc EXCEPT ![p] = "srv_io_error"]
          /\ UNCHANGED <<stdio, req, stage, loc, reads, result>>
       \/ /\ stdio.pos = Len(stdio.input)
          /\ pc' = [pc EXCEPT ![p] = "srv_eof"]
          /\ UNCHANGED <<stdio, req, stage, loc, reads, result>>
       \/ /\ stdio.pos < Len(stdio.input)
          /\ LET line == stdio.input[stdio.pos + 1]
                 read == [stdio EXCEPT !.pos = @ + 1]
             IN
             IF line.blank
             THEN stdio' = read /\ UNCHANGED <<pc, req, stage, loc, reads, result>>
             ELSE IF line.parse = None
             THEN /\ result' = [result EXCEPT ![p] =
                                   RpcResponse_error(JsonNull, -32700, "parse error")]
                  /\ pc' = [pc EXCEPT ![p] = "srv_write"]
                  /\ stdio' = read
                  /\ UNCHANGED <<req, stage, loc, reads>>
             ELSE LET r == line.parse.val IN
                  IF r.method \notin {"get_balance", "get_token_price", "swap_tokens"}
                  THEN /\ result' = [result EXCEPT ![p] =
                                        RpcResponse_error(r.id, -32601, "method not found: " \o r.method)]
                       /\ pc' = [pc EXCEPT ![p] = "srv_write"]
                       /\ stdio' = read
                       /\ UNCHANGED <<req, stage, loc, reads>>
                  ELSE IF r.params = None
                  THEN /\ result' = [result EXCEPT ![p] =
                                        RpcResponse_error(r.id, -32602, "invalid input: invalid params")]
                       /\ pc' = [pc EXCEPT ![p] = "srv_write"]
                       /\ stdio' = read
                       /\ UNCHANGED <<req, stage, loc, reads>>
                  ELSE /\ req' = [req EXCEPT ![p] = [op |-> r.method, params |-> r.params.val]]
                       /\ pc' = [pc EXCEPT ![p] = Script(r.method)[1].pc]
                       /\ stage' = [stage EXCEPT ![p] = 1]
                       /\ loc' = [loc EXCEPT ![p] = EmptyLoc]
                       /\ reads' = [reads EXCEPT ![p] = <<>>]
                       /\ result' = [result EXCEPT ![p] = None]
                       /\ stdio' = read
    /\ UNCHANGED <<registry, lock, env, served>>

\* dispatch, lines 118-131: the handler returned; its value or error becomes the
\* response, under the request's id
SrvDispatched(p) ==
    /\ pc[p] = "done"
    /\ LET id == stdio.input[stdio.pos].parse.val.id IN
       result' = [result EXCEPT ![p] =
                     IF IsOk(result[p]) THEN RpcResponse_success(id, result[p].val)
                     ELSE RpcResponse_error(id, to_json_rpc(result[p].kind), result[p].msg)]
    /\ pc' = [pc EXCEPT ![p] = "srv_write"]
    /\ UNCHANGED <<registry, lock, env, stdio, req, stage, loc, reads, served>>

\* run_stdio, lines 46-50 and 56-59: write_all(payload), write_all("\n") and
\* flush(): the response line is written, or an I/O error ends the loop with
\* the line written or not
SrvWrite(p) ==
    /\ pc[p] = "srv_write"
    /\ \E outcome \in {"written", "failed", "failed_after"} :
         /\ stdio' = [stdio EXCEPT !.output =
                         IF outcome = "failed" THEN @ ELSE Append(@, result[p])]
         /\ pc' = [pc EXCEPT ![p] = IF outcome = "written" THEN "srv_read" ELSE "srv_io_error"]
    /\ UNCHANGED <<registry, lock, env, req, stage, loc, reads, result, served>>

NextStdio ==
    \E p \in Procs :
        \/ SrvRead(p)
        \/ SrvDispatched(p)
        \/ SrvWrite(p)
        \/ RiStart(p)
        \/ SnapshotPoll(p)
        \/ SnapshotClone(p)
        \/ EnsPoll(p)
        \/ EnsCheck(p)
        \/ EnsDecimalsReturn(p)
        \/ EnsSymbolReturn(p)
        \/ SwSigner(p)
        \/ resolve_balance(p)
        \/ resolve_token_price(p)
        \/ simulate_swap(p)

SpecStdio == InitStdio /\ [][NextStdio]_vars

(***************************************************************************)
(* config.rs: AppConfig::load.  The working directory either holds the     *)
(* config file or not; without it the configuration comes from the         *)
(* environment variables.  A chain id is a u64, kept as its digits.        *)
(***************************************************************************)
DEFAULT_CHAIN_ID == 1

U64_MAX == <<1,8,4,4,6,7,4,4,0,7,3,7,0,9,5,5,1,6,1,5>>

\* str::parse::<u64>: an optional '+', then digits only, at most 2^64 - 1
parse_u64(s) ==
    LET body == IF s # <<>> /\ s[1] = "+" THEN Tail(s) ELSE s IN
    IF body = <<>> \/ \E i \in 1..Len(body) : ~IsDigitChar(body[i]) THEN None
    ELSE LET v == StripZeros([i \in 1..Len(body) |-> CharDigit(body[i])])
         IN  IF BigLeq(v, U64_MAX) THEN Some(v) ELSE None

\* the serde default of the default_chain_id key
default_chain_id == U256_from(DEFAULT_CHAIN_ID)

apply_chain_id_default(cfg) ==
    IF cfg.default_chain_id = U256_ZERO
    THEN [cfg EXCEPT !.default_chain_id = U256_from(DEFAULT_CHAIN_ID)]
    ELSE cfg

\* toml::from_str into AppConfig: eth_rpc_url is required, the other keys
\* have defaults
toml_from_str(raw) ==
    IF raw.eth_rpc_url = None THEN None
    ELSE Some([eth_rpc_url      |-> raw.eth_rpc_url.val,
               private_key      |-> raw.private_key,
               default_chain_id |-> IF raw.default_chain_id = None
                                    THEN default_chain_id
                                    ELSE raw.default_chain_id.val])

from_env(vs) ==
    IF vs.ETH_RPC_URL = None
    THEN Err("Config", "ETH_RPC_URL missing (config file not found)")
    ELSE
      LET parsed == IF vs.DEFAULT_CHAIN_ID = None THEN None
                    ELSE parse_u64(vs.DEFAULT_CHAIN_ID.val)
      IN  Ok([eth_rpc_url      |-> vs.ETH_RPC_URL.val,
              private_key      |-> vs.PRIVATE_KEY,
              default_chain_id |-> IF parsed = None
                                   THEN U256_from(DEFAULT_CHAIN_ID)
                                   ELSE parsed.val])

AppConfig_load(file, vs) ==
    IF file.exists
    THEN IF ~file.readable THEN Err("Config", "failed to read config file")
         ELSE LET cfg == toml_from_str(file.raw) IN
              IF cfg = None THEN Err("Config", "failed to parse config file")
              ELSE Ok(apply_chain_id_default(cfg.val))
    ELSE from_env(vs)

(***************************************************************************)
(* SpecConfig: one call of AppConfig::load on every combination of a       *)
(* config file (missing, unreadable, without the required key, with a      *)
(* chain id of 0, 1, 5 or none) and of the environment variables.          *)
(***************************************************************************)
ChainIdTexts ==
    { <<"0">>, <<"0", "0">>, <<"+", "0">>, <<"1">>, <<"5">>, <<"-", "1">>,
      <<"a", "b">>, <<>>, to_string(U64_MAX), to_string(U64_MAX) \o <<"0">> }

NoRaw == [eth_rpc_url |-> None, private_key |-> None, default_chain_id |-> None]

ConfigFiles ==
    {[exists |-> FALSE, readable |-> FALSE, raw |-> NoRaw],
     [exists |-> TRUE, readable |-> FALSE, raw |-> NoRaw]}
    \cup { [exists |-> TRUE, readable |-> TRUE,
            raw |-> [eth_rpc_url |-> u, private_key |-> None, default_chain_id |-> c]] :
             u \in {None, Some("http://file")},
             c \in {None, Some(U256_ZERO), Some(<<1>>), Some(<<5>>), Some(U64_MAX)} }

ConfigEnvs ==
    [ETH_RPC_URL      : {None, Some("http://env")},
     PRIVATE_KEY      : {None, Some("key")},
     DEFAULT_CHAIN_ID : {None} \cup {Some(t) : t \in ChainIdTexts}]

ConfigCalls ==
    { [op |-> "load", params |-> [file |-> f, vars |-> vs]] :
        f \in ConfigFiles, vs \in ConfigEnvs }

InitConfig ==
    /\ registry = TokenRegistry_new
    /\ lock = LockFree
    /\ env = WideEnv
    /\ stdio = NoStdio
    /\ \E c \in ConfigCalls : req = [p \in Procs |-> IF p = 1 THEN c ELSE NoReq]
    /\ pc = [p \in Procs |-> IF p = 1 THEN "cfg_start" ELSE "off"]
    /\ stage = [p \in Procs |-> 0]
    /\ loc = [p \in Procs |-> EmptyLoc]
    /\ reads = [p \in Procs |-> <<>>]
    /\ result = [p \in Procs |-> None]
    /\ served = [p \in Procs |-> 0]

\* the call: a configuration or a Config error is returned
CfgLoad(p) ==
    /\ pc[p] = "cfg_start"
    /\ Finish(p, AppConfig_load(req[p].params.file, req[p].params.vars))
    /\ UNCHANGED <<registry, lock, env, stdio, req, stage, loc, reads, served>>

NextConfig == \E p \in Procs : CfgLoad(p)

SpecConfig == InitConfig /\ [][NextConfig]_vars

(***************************************************************************)
(* SpecLive: the service layer of Spec under the scheduling of the tokio   *)
(* runtime.  A task that can be polled is polled, a read that was issued   *)
(* returns, and the lock hands the guard to the head of its queue: every   *)
(* step of a request, once it can be taken, is taken.  Taking a request    *)
(* (Start) is up to the caller and carries no fairness.  The chain may     *)
(* answer decimals() with 78.                                              *)
(***************************************************************************)
LiveEnv == [NarrowEnv(Some(SIGNER)) EXCEPT !.decimals = {None, Some(6), Some(78)}]

InitLive ==
    /\ registry = with_defaults
    /\ lock = LockFree
    /\ env = LiveEnv
    /\ stdio = NoStdio
    /\ pc = [p \in Procs |-> "idle"]
    /\ req = [p \in Procs |-> NoReq]
    /\ stage = [p \in Procs |-> 0]
    /\ loc = [p \in Procs |-> EmptyLoc]
    /\ reads = [p \in Procs |-> <<>>]
    /\ result = [p \in Procs |-> None]
    /\ served = [p \in Procs |-> 0]

\* the steps of the request task p serves
Progress(p) ==
    \/ RiStart(p)
    \/ SnapshotPoll(p)
    \/ SnapshotWake(p)
    \/ SnapshotClone(p)
    \/ EnsPoll(p)
    \/ EnsWake(p)
    \/ EnsCheck(p)
    \/ EnsDecimalsReturn(p)
    \/ EnsSymbolReturn(p)
    \/ SwSigner(p)
    \/ resolve_balance(p)
    \/ resolve_token_price(p)
    \/ simulate_swap(p)

SpecLive == InitLive /\ [][Next]_vars /\ \A p \in Procs : WF_vars(Progress(p))

(***************************************************************************)
(* Properties.                                                             *)
(***************************************************************************)
\* task p has an external read in flight
InFlight(p) ==
    pc[p] \in {"ens_decimals", "ens_symbol",
               "bal_eth", "bal_decimals", "bal_symbol", "bal_balance_of",
               "rp_feed_decimals", "rp_feed_round", "rp_quote",
               "sw_meta_decimals", "sw_meta_symbol", "sw_quote", "sw_gas", "sw_call"}

Returned(p) == pc[p] = "done"

\* task p is in resolve_token_price for a base its snapshot holds
Pricing(p) ==
    /\ req[p].op = "get_token_price"
    /\ stage[p] = 4
    /\ loc[p].snap # None
    /\ loc[p].a1 \in DOMAIN Snapshot(p).by_address

BaseRecord(p) == Snapshot(p).by_address[loc[p].a1]

WethHasUsdFeed(reg) ==
    /\ "WETH" \in DOMAIN reg.by_symbol
    /\ "USD" \in DOMAIN reg.by_symbol["WETH"].chainlink_feeds

FeeLabel(info) == "uniswap_v3 (fee " \o ToString(info.default_fee) \o ")"

\* the label of the earliest step of the resolution order that applies
C1_Label(reg, b, quote) ==
    IF quote \in DOMAIN b.chainlink_feeds THEN "chainlink"
    ELSE IF quote = "ETH" /\ "USD" \in DOMAIN b.chainlink_feeds /\ WethHasUsdFeed(reg)
    THEN "chainlink (via USD)"
    ELSE IF quote = "USD" /\ "ETH" \in DOMAIN b.chainlink_feeds /\ WethHasUsdFeed(reg)
    THEN "chainlink (via ETH)"
    ELSE FeeLabel(b)

\* the contracts that step reads
C1_Targets(reg, b, quote) ==
    LET label == C1_Label(reg, b, quote) IN
    IF label = "chainlink" THEN {b.chainlink_feeds[quote]}
    ELSE IF label = "chainlink (via USD)"
    THEN {b.chainlink_feeds["USD"], reg.by_symbol["WETH"].chainlink_feeds["USD"]}
    ELSE IF label = "chainlink (via ETH)"
    THEN {b.chainlink_feeds["ETH"], reg.by_symbol["WETH"].chainlink_feeds["USD"]}
    ELSE {UNISWAP_QUOTER_V2}

\* C1: for a base the snapshot holds, a successful resolve_token_price carries
\* the source label of the earliest applicable step (direct feed, USD pivot, ETH
\* pivot, DEX with the base's fee), and every read it issues is one of that step.
C1_ResolutionOrder ==
    \A p \in Procs :
        Pricing(p) =>
            /\ (Returned(p) /\ IsOk(result[p]) =>
                    result[p].val.source = C1_Label(Snapshot(p), BaseRecord(p), req[p].params.quote))
            /\ \A i \in 1..Len(reads[p]) :
                    reads[p][i].target \in C1_Targets(Snapshot(p), BaseRecord(p), req[p].params.quote)

\* C1 witness: a pivot price was returned when the base has no direct feed for
\* the quote, after the four reads of its two feeds.
C1_PivotReturned ==
    \E p \in Procs :
        /\ Pricing(p)
        /\ Returned(p)
        /\ IsOk(result[p])
        /\ result[p].val.source = "chainlink (via ETH)"
        /\ req[p].params.quote \notin DOMAIN BaseRecord(p).chainlink_feeds
        /\ Len(reads[p]) = 4

\* the case of C2: only a USD feed on the base, ETH asked, no USD feed on WETH
C2_Case(p) ==
    /\ Pricing(p)
    /\ req[p].params.quote = "ETH"
    /\ DOMAIN BaseRecord(p).chainlink_feeds = {"USD"}
    /\ ~WethHasUsdFeed(Snapshot(p))

\* C2 as stated: in that case resolve_token_price fails with a Price error.
C2_FailsWithPriceError ==
    \A p \in Procs :
        C2_Case(p) /\ Returned(p) => IsErr(result[p]) /\ result[p].kind = "Price"

\* C2 amended: in that case the USD pivot is skipped without a feed read and the
\* DEX fallback decides: what is returned is a Price error or the DEX price
\* labelled with the base's fee tier, and with no WETH record at all it is the
\* Price error "missing quote token configuration".
C2_FallsBackToDex ==
    \A p \in Procs :
        C2_Case(p) =>
            /\ \A i \in 1..Len(reads[p]) : reads[p][i].kind = "quote_exact_input_single"
            /\ Returned(p) =>
                   \/ IsErr(result[p]) /\ result[p].kind = "Price"
                   \/ /\ IsOk(result[p])
                      /\ result[p].val.source = FeeLabel(BaseRecord(p))
                      /\ "WETH" \in DOMAIN Snapshot(p).by_symbol
            /\ (Returned(p) /\ "WETH" \notin DOMAIN Snapshot(p).by_symbol =>
                   result[p] = Err("Price", "missing quote token configuration"))

\* C2 witness: in that case a DEX price was returned.
C2_DexPriceReturned ==
    \E p \in Procs : C2_Case(p) /\ Returned(p) /\ IsOk(result[p])

\* C3: no task has an external read in flight while it holds the registry lock.
C3_NoReadUnderLock ==
    \A p \in Procs : InFlight(p) => ~Holds(p)

\* C4: a task that has issued an external read has taken a snapshot of the
\* registry before, and does not hold the lock while its first read is in flight.
C4_SnapshotBeforeFirstRead ==
    \A p \in Procs :
        reads[p] # <<>> =>
            /\ loc[p].snaps > 0
            /\ (Len(reads[p]) = 1 /\ InFlight(p) => ~Holds(p))

\* C5: every record of the address index is found under its symbol with the
\* same address, and every record of the symbol index is found under its
\* address with the same symbol.
C5_IndicesConsistent ==
    /\ \A a \in DOMAIN registry.by_address :
          LET r == info_by_symbol(registry, registry.by_address[a].symbol) IN
          r # None /\ r.val.address = a
    /\ \A s \in DOMAIN registry.by_symbol :
          LET r == info_by_address(registry, registry.by_symbol[s].address) IN
          r # None /\ r.val.symbol = registry.by_symbol[s].symbol

\* C6: while a task keeps a snapshot, no step of any task changes what the
\* snapshot shows: its set of records and every field of every record.
C6_SnapshotIsolation ==
    [][\A p \in Procs :
          (loc[p].snap # None /\ loc'[p].snap = loc[p].snap) => Snapshot(p)' = Snapshot(p)]_vars

\* C6 witness: a running operation holds a snapshot and the shared registry has
\* since been enriched.
C6_SnapshotOlderThanRegistry ==
    \E p \in Procs :
        /\ loc[p].snap # None
        /\ InFlight(p)
        /\ Snapshot(p) # registry

\* C7: a swap request with slippage_bps > 10000 or a zero input amount has
\* issued no external read.
C7_RejectedBeforeAnyRead ==
    \A p \in Procs :
        (/\ req[p].op = "swap_tokens"
         /\ \/ req[p].params.slippage_bps > 10000
            \/ parse_amount(req[p].params.amount_in_wei) = Ok(U256_ZERO))
        => reads[p] = <<>>

\* C8: simulate_swap with a price-limit override that does not parse has issued
\* no external read, and what it returns is the input error.
C8_ValidationBeforeDecimalsRead ==
    \A p \in Procs :
        (/\ req[p].op = "swap_tokens"
         /\ stage[p] = 6
         /\ IsErr(parse_price_limit(req[p].params.sqrt_price_limit)))
        => /\ reads[p] = <<>>
           /\ (Returned(p) => IsErr(result[p]) /\ result[p].kind \in {"InvalidInput", "Swap"})

C9_Floor(amount, bps) == BigDivSmall(BigMulSmall(amount, 10000 - bps), 10000)

\* C9: for every quoted amount and every slippage_bps in 0..10000, apply_slippage
\* returns floor(amountOut * (10000 - slippage_bps) / 10000), without aborting,
\* and that is at most amountOut.
C9_SlippageIsFloor ==
    \A p \in Procs :
        (/\ req[p].op = "swap_tokens"
         /\ loc[p].amount_out # <<>>
         /\ req[p].params.slippage_bps \in 0..10000)
        => /\ apply_slippage(loc[p].amount_out, req[p].params.slippage_bps)
                = Ok(C9_Floor(loc[p].amount_out, req[p].params.slippage_bps))
           /\ BigLeq(C9_Floor(loc[p].amount_out, req[p].params.slippage_bps), loc[p].amount_out)

\* C10: no request ends in a panic: every operation ends with a result or an
\* error of its own.
C10_NoRequestIsFatal ==
    \A p \in Procs : pc[p] # "panicked"

\* task p has made its call of format_with_decimals
Formatted(p) == req[p].op = "format_with_decimals" /\ pc[p] # "fmt_start"

U256_BITS == 256

\* 10^d is 2^d * 5^d: it is zero modulo 2^256 exactly from d = 256 on
PowerWrapsToZero(d) == d >= U256_BITS

\* C11: when 10^decimals is zero in 256-bit arithmetic, format_with_decimals
\* returns the integer string of raw.
C11_DegenerateReturnsRaw ==
    \A p \in Procs :
        Formatted(p) /\ PowerWrapsToZero(req[p].params.decimals)
            => result[p] = Ok(to_string(req[p].params.raw))

HasDot(out) == \E i \in 1..Len(out) : out[i] = "."

DotAt(out) == IF HasDot(out) THEN CHOOSE i \in 1..Len(out) : out[i] = "." ELSE Len(out) + 1

IntegerPart(out) == SubSeq(out, 1, DotAt(out) - 1)

FractionPart(out) == SubSeq(out, DotAt(out) + 1, Len(out))

\* integerPart * 10^d + fractionPart, the fraction right-padded to d digits
ParseBack(out, d) ==
    LET f == FractionPart(out) IN
    IF Len(f) > d \/ IntegerPart(out) = <<>> THEN <<>>
    ELSE LET ds == IntegerPart(out) \o f \o repeat0(d - Len(f))
         IN  StripZeros([i \in 1..Len(ds) |-> CharDigit(ds[i])])

\* C12: for every raw amount and decimal count format_with_decimals returns a
\* string, and parsing it back gives the raw amount.
C12_RoundTrip ==
    \A p \in Procs :
        Formatted(p) =>
            /\ IsOk(result[p])
            /\ ParseBack(result[p].val, req[p].params.decimals) = req[p].params.raw

\* r mod 10^d # 0: one of the last d digits of r is not zero
HasFraction(r, d) == \E i \in 1..Len(r) : i > Len(r) - d /\ r[i] # 0

\* C13: for every raw amount and decimal count the string returned has a "."
\* only when raw mod 10^decimals is not zero, its fraction has at most decimals
\* digits and does not end in "0"; format(r, 0) is the integer string of r and
\* format(0, d) is "0".
C13_MinimalForm ==
    \A p \in Procs :
        Formatted(p) =>
            LET r == req[p].params.raw
                d == req[p].params.decimals
            IN  /\ IsOk(result[p])
                /\ HasDot(result[p].val) <=> HasFraction(r, d)
                /\ HasDot(result[p].val) =>
                      LET f == FractionPart(result[p].val) IN
                      Len(f) \in 1..d /\ f[Len(f)] # "0"
                /\ d = 0 => result[p].val = to_string(r)
                /\ is_zero(r) /\ d > 0 => result[p].val = <<"0">>

\* task p has called resolve_token_price for a base its snapshot lacks, and the
\* call has taken its first step
UnknownBase(p) ==
    /\ req[p].op = "get_token_price"
    /\ stage[p] = 4
    /\ loc[p].snap # None
    /\ loc[p].a1 \notin DOMAIN Snapshot(p).by_address
    /\ pc[p] # "rp_start"

\* C14 as stated: resolve_token_price for a base absent from the snapshot fails
\* with the UnsupportedToken kind, a message naming the address, and no read.
C14_FailsAsUnsupportedToken ==
    \A p \in Procs :
        UnknownBase(p) =>
            /\ result[p] = Err("UnsupportedToken", "unsupported token: " \o loc[p].a1)
            /\ reads[p] = <<>>

\* C14 amended: resolve_token_price for a base absent from the snapshot fails
\* with the InvalidInput kind and the message "unsupported token: <address>",
\* and issues no external read.
C14_FailsAsInvalidInput ==
    \A p \in Procs :
        UnknownBase(p) =>
            /\ Returned(p)
            /\ result[p] = Err("InvalidInput", "unsupported token: " \o loc[p].a1)
            /\ reads[p] = <<>>
            /\ loc[p].replies = <<>>

\* C14 witness: the call for the unregistered address returned, from a registry
\* holding other records.
C14_UnknownBaseReturned ==
    \E p \in Procs :
        /\ UnknownBase(p)
        /\ Returned(p)
        /\ loc[p].a1 = ADDR_NEW
        /\ DOMAIN Snapshot(p).by_address # {}

\* the reads C15 lists: every read but the tolerated symbol() lookup
FailFastReads ==
    {"decimals", "balance_of", "get_balance", "feed_decimals", "latest_round_data",
     "quote_exact_input_single", "estimate_gas", "call"}

\* the last read task p issued failed at the chain-read primitive
LastReadFailed(p) ==
    /\ reads[p] # <<>>
    /\ Len(loc[p].replies) = Len(reads[p])
    /\ loc[p].replies[Len(reads[p])] = None
    /\ reads[p][Len(reads[p])].kind \in FailFastReads

\* C15: an operation whose read of token decimals, balanceOf, native balance,
\* feed decimals, latest round, DEX quote, gas estimate or call simulation failed
\* returns an error of the Rpc kind.
C15_FailedReadIsRpcError ==
    \A p \in Procs :
        Returned(p) /\ LastReadFailed(p) => IsErr(result[p]) /\ result[p].kind = "Rpc"

\* task p is in resolve_token_price and its base has a feed for the quote asked
DirectFeed(p) == Pricing(p) /\ HasFeed(BaseRecord(p), req[p].params.quote)

NonPositive(answer) == answer.neg \/ is_zero(answer.mag)

\* the i-th reply task p received is a failed read, or an answer <= 0
BadFeedReply(p, i) ==
    \/ loc[p].replies[i] = None
    \/ reads[p][i].kind = "latest_round_data" /\ NonPositive(loc[p].replies[i].val)

\* C16: when the base has a feed for the quote asked, the only reads are one
\* decimals read and one latest-round read of that feed; a failed read or an
\* answer <= 0 ends the call at once with a Price error and no read follows it;
\* a price is returned only for a positive answer and is that answer, unaltered,
\* at the feed's scale.
C16_DirectFeedFailsFast ==
    \A p \in Procs :
        DirectFeed(p) =>
            /\ Len(reads[p]) <= 2
            /\ \A i \in 1..Len(reads[p]) :
                   /\ reads[p][i].target = BaseRecord(p).chainlink_feeds[req[p].params.quote]
                   /\ reads[p][i].kind = IF i = 1 THEN "feed_decimals" ELSE "latest_round_data"
            /\ \A i \in 1..Len(loc[p].replies) :
                   BadFeedReply(p, i) =>
                       /\ Returned(p)
                       /\ IsErr(result[p])
                       /\ result[p].kind = "Price"
                       /\ Len(reads[p]) = i
            /\ Returned(p) /\ IsOk(result[p]) =>
                   /\ Len(loc[p].replies) = 2
                   /\ ~NonPositive(loc[p].replies[2].val)
                   /\ result[p].val.price =
                          decimal_to_string(Dec(loc[p].replies[2].val.mag, loc[p].replies[1].val))

\* C16 witness: the direct feed answered its decimals and then an answer <= 0,
\* and the call returned, while the registry also offered a pivot through WETH.
C16_NonPositiveAnswerReturned ==
    \E p \in Procs :
        /\ DirectFeed(p)
        /\ Returned(p)
        /\ Len(loc[p].replies) = 2
        /\ loc[p].replies[2] # None
        /\ NonPositive(loc[p].replies[2].val)
        /\ WethHasUsdFeed(Snapshot(p))

\* task p is in the USD pivot: ETH asked, no ETH feed on the base, USD feeds on
\* the base and on WETH
UsdPivot(p) ==
    /\ Pricing(p)
    /\ C1_Label(Snapshot(p), BaseRecord(p), req[p].params.quote) = "chainlink (via USD)"

\* C17: in the USD pivot no price the step holds is zero, so a quotient
\* base_usd / eth_usd is only ever formed with eth_usd # 0; when the ETH/USD
\* feed answers zero the call returns a Price error and no price.
C17_NoDivisionByZero ==
    \A p \in Procs :
        UsdPivot(p) =>
            /\ \A i \in 1..Len(loc[p].prices) : ~is_zero(loc[p].prices[i].mant)
            /\ Returned(p) /\ IsOk(result[p]) =>
                   /\ result[p].val.price.to_string.kind = "div"
                   /\ ~is_zero(result[p].val.price.to_string.r.mant)
            /\ (/\ Len(loc[p].replies) = 4
                /\ loc[p].replies[4] # None
                /\ is_zero(loc[p].replies[4].val.mag))
                   => Returned(p) /\ IsErr(result[p]) /\ result[p].kind = "Price"

\* C17 witness: the base's USD price was read, the ETH/USD feed answered zero,
\* and the call returned.
C17_ZeroEthUsdReturned ==
    \E p \in Procs :
        /\ UsdPivot(p)
        /\ Returned(p)
        /\ Len(loc[p].prices) = 1
        /\ Len(loc[p].replies) = 4
        /\ loc[p].replies[4] # None
        /\ is_zero(loc[p].replies[4].val.mag)

\* no oracle step applies to the call of task p
NoOracleStep(p) ==
    /\ Pricing(p)
    /\ C1_Label(Snapshot(p), BaseRecord(p), req[p].params.quote)
           \notin {"chainlink", "chainlink (via USD)", "chainlink (via ETH)"}

\* the snapshot has no "USDC" record for USD, no "WETH" record for ETH
NoQuoteToken(p) ==
    (IF req[p].params.quote = "USD" THEN "USDC" ELSE "WETH") \notin DOMAIN Snapshot(p).by_symbol

\* C18: when no oracle step applies and the snapshot has no quote token for the
\* currency asked, resolve_token_price returns the Price error "missing quote
\* token configuration" and issues no external read.
C18_MissingQuoteToken ==
    \A p \in Procs :
        NoOracleStep(p) /\ NoQuoteToken(p) /\ pc[p] # "rp_start" =>
            /\ Returned(p)
            /\ result[p] = Err("Price", "missing quote token configuration")
            /\ reads[p] = <<>>

\* C18 witness: the call returned for USD with no oracle step and no USDC record,
\* from a snapshot that does hold the other quote token, WETH.
C18_NoUsdcReturned ==
    \E p \in Procs :
        /\ NoOracleStep(p)
        /\ NoQuoteToken(p)
        /\ Returned(p)
        /\ req[p].params.quote = "USD"
        /\ "WETH" \in DOMAIN Snapshot(p).by_symbol

\* the call of task p has gone past its first step into the DEX fallback, the
\* snapshot holding the quote token
DexFallback(p) == NoOracleStep(p) /\ ~NoQuoteToken(p) /\ pc[p] # "rp_start"

\* 10^d written out
OneWholeUnit(d) == <<1>> \o Zeros(d)

\* the one read the DEX fallback of task p issues: the quoter, for one whole
\* unit of the base into the quote token at the base's fee, price limit 0
QuoterReadIssued(p) ==
    /\ Len(reads[p]) = 1
    /\ reads[p][1].kind = "quote_exact_input_single"
    /\ reads[p][1].target = UNISWAP_QUOTER_V2
    /\ reads[p][1].args.token_in = BaseRecord(p).address
    /\ reads[p][1].args.token_out =
           Snapshot(p).by_symbol[IF req[p].params.quote = "USD" THEN "USDC" ELSE "WETH"].address
    /\ reads[p][1].args.amount_in = OneWholeUnit(BaseRecord(p).decimals)
    /\ reads[p][1].args.fee = BaseRecord(p).default_fee
    /\ reads[p][1].args.sqrt_price_limit_x96 = U256_ZERO

\* C19: in the DEX fallback, for every base record (decimals 0..255), the quoter
\* read is issued with amount_in = 10^decimals, the base and quote token
\* addresses, the base's default fee and price limit 0, and a returned price is
\* labelled with that fee.
C19_QuotesOneWholeUnit ==
    \A p \in Procs :
        DexFallback(p) =>
            /\ QuoterReadIssued(p)
            /\ Returned(p) /\ IsOk(result[p]) =>
                   result[p].val.source =
                       "uniswap_v3 (fee " \o ToString(reads[p][1].args.fee) \o ")"

\* the decimals of the quote token of the call of task p
QuoteDecimals(p) ==
    Snapshot(p).by_symbol[IF req[p].params.quote = "USD" THEN "USDC" ELSE "WETH"].decimals

\* C20: a price the DEX fallback returns comes from a non-zero quoted amount and
\* its string is the text format_with_decimals gives for that amount at the
\* quote token's decimals; a quoted amount of zero gives a Price error.
C20_DexPriceIsFormattedAmount ==
    \A p \in Procs :
        DexFallback(p) /\ Returned(p) =>
            /\ IsOk(result[p]) =>
                   /\ Len(loc[p].replies) = 1
                   /\ loc[p].replies[1] # None
                   /\ ~is_zero(loc[p].replies[1].val)
                   /\ Ok(result[p].val.price) =
                          format_with_decimals(loc[p].replies[1].val, QuoteDecimals(p))
            /\ (/\ Len(loc[p].replies) = 1
                /\ loc[p].replies[1] # None
                /\ is_zero(loc[p].replies[1].val))
                   => IsErr(result[p]) /\ result[p].kind = "Price"

\* C20 witness: the DEX fallback returned a price with a fraction, for a quoted
\* amount that is not a whole number of quote tokens.
C20_FractionalDexPrice ==
    \E p \in Procs :
        /\ DexFallback(p)
        /\ Returned(p)
        /\ IsOk(result[p])
        /\ HasDot(result[p].val.price)
        /\ Len(result[p].val.price) = 3

\* the i-th read of task p carries swap call data
CarriesCall(p, i) == reads[p][i].kind \in {"estimate_gas", "call"}

\* the call data d repeats the quoter parameters q and bounds the output by the
\* slippage bound of the quoted amount out
SameAsQuoted(d, q, out, bps) ==
    /\ d.token_in = q.token_in
    /\ d.token_out = q.token_out
    /\ d.fee = q.fee
    /\ d.amount_in = q.amount_in
    /\ d.sqrt_price_limit_x96 = q.sqrt_price_limit_x96
    /\ d.amount_out_minimum = C9_Floor(out, bps)

\* C21: every swap call data simulate_swap hands to estimate_gas or call has the
\* token_in, token_out, fee, amount_in and price limit of the quoter read issued
\* just before, and its amount_out_minimum is the slippage bound of that quote's
\* output.
C21_CallMatchesQuote ==
    \A p \in Procs :
        req[p].op = "swap_tokens" =>
            \A i \in 1..Len(reads[p]) :
                CarriesCall(p, i) =>
                    \E j \in 1..(i - 1) :
                        /\ reads[p][j].kind = "quote_exact_input_single"
                        /\ \A k \in (j + 1)..(i - 1) : CarriesCall(p, k)
                        /\ loc[p].replies[j] # None
                        /\ SameAsQuoted(reads[p][i].args.data, reads[p][j].args,
                                        loc[p].replies[j].val, req[p].params.slippage_bps)

\* C21 witness: the simulation was issued for a swap quoted with a non-zero price
\* limit and a non-zero slippage.
C21_LimitedSwapSimulated ==
    \E p \in Procs :
        /\ req[p].op = "swap_tokens"
        /\ Len(reads[p]) = 5
        /\ reads[p][5].kind = "call"
        /\ ~is_zero(reads[p][5].args.data.sqrt_price_limit_x96)
        /\ req[p].params.slippage_bps = 100

\* the reads of simulate_swap, in the order the code issues them
SwapReadOrder == <<"decimals", "symbol", "quote_exact_input_single", "estimate_gas", "call">>

\* the i-th step of the swap of task p failed: a failed decimals, quoter, gas or
\* call read, or a quoted output of zero
SwapStepFailed(p, i) ==
    \/ loc[p].replies[i] = None /\ reads[p][i].kind # "symbol"
    \/ /\ reads[p][i].kind = "quote_exact_input_single"
       /\ loc[p].replies[i] # None
       /\ is_zero(loc[p].replies[i].val)

\* C22: simulate_swap issues its reads in the order decimals, (symbol,) quoter,
\* gas estimation, call simulation, on the destination token, the quoter and the
\* router; a failed step or a zero quote returns an error with no later read and
\* no SwapSimOut; a SwapSimOut is returned only after all five reads were
\* answered, the decimals, quoter, gas and call reads successfully and the quote
\* with a non-zero output.
C22_SwapStepsInOrder ==
    \A p \in Procs :
        req[p].op = "swap_tokens" /\ stage[p] = 6 =>
            /\ Len(reads[p]) <= 5
            /\ \A i \in 1..Len(reads[p]) :
                   /\ reads[p][i].kind = SwapReadOrder[i]
                   /\ reads[p][i].target =
                          IF i <= 2 THEN loc[p].a2
                          ELSE IF i = 3 THEN UNISWAP_QUOTER_V2 ELSE UNISWAP_SWAP_ROUTER
            /\ \A i \in 1..Len(loc[p].replies) :
                   SwapStepFailed(p, i) =>
                       /\ Returned(p)
                       /\ IsErr(result[p])
                       /\ Len(reads[p]) = i
            /\ Returned(p) /\ IsOk(result[p]) =>
                   /\ Len(loc[p].replies) = 5
                   /\ \A i \in 1..5 : ~SwapStepFailed(p, i)

\* C22 witness: a SwapSimOut was returned, after a symbol read that failed.
C22_SwapSimulated ==
    \E p \in Procs :
        /\ req[p].op = "swap_tokens"
        /\ stage[p] = 6
        /\ Returned(p)
        /\ IsOk(result[p])
        /\ loc[p].replies[2] = None

\* the step of task p answers the decimals read of ensure_token with a failure
EnsDecimalsFailed(p) ==
    /\ pc[p] = "ens_decimals"
    /\ Len(loc'[p].replies) = Len(loc[p].replies) + 1
    /\ loc'[p].replies[Len(loc'[p].replies)] = None

\* the step of task p answers the symbol read of ensure_token
EnsSymbolAnswered(p) ==
    /\ pc[p] = "ens_symbol"
    /\ Len(loc'[p].replies) = Len(loc[p].replies) + 1

\* the record ensure_token has to insert for task p at that step
EnrichedRecord(p) ==
    LET a == loc[p][Step(p).slot]
        n == Len(loc'[p].replies)
    IN  /\ a \in DOMAIN registry'.by_address
        /\ registry'.by_address[a].address = a
        /\ registry'.by_address[a].decimals = loc'[p].replies[n - 1].val
        /\ DOMAIN registry'.by_address[a].chainlink_feeds = {}
        /\ registry'.by_address[a].default_fee = 3000
        /\ loc'[p].replies[n] = None => registry'.by_address[a].symbol = "ERC20"

\* C23: in ensure_token for an unknown address a failed decimals read fails the
\* call and leaves the registry unchanged; an answered or failed symbol read
\* lets the call succeed and inserts a record with the decimals read from the
\* chain, no feeds and fee tier 3000, its symbol "ERC20" when the symbol read
\* failed; the registry changes at no other step.
C23_Enrichment ==
    [][/\ \A p \in Procs :
             /\ EnsDecimalsFailed(p) =>
                    pc'[p] = "done" /\ IsErr(result'[p]) /\ registry' = registry
             /\ EnsSymbolAnswered(p) =>
                    stage'[p] = stage[p] + 1 /\ result'[p] = None /\ EnrichedRecord(p)
       /\ registry' # registry => \E p \in Procs : EnsSymbolAnswered(p)]_vars

\* C23 witness: the registry holds a record for the new address with the
\* fallback symbol and the decimals the chain answered.
C23_FallbackSymbolInserted ==
    /\ ADDR_NEW \in DOMAIN registry.by_address
    /\ registry.by_address[ADDR_NEW].symbol = "ERC20"
    /\ registry.by_address[ADDR_NEW].decimals = 6

\* task p is in resolve_balance
Balancing(p) == req[p].op = "get_balance" /\ pc[p] \notin {"bal_start", "snapshot", "snap_wait", "snap_held"} /\ loc[p].a1 # ""

\* what resolve_balance has to give for a raw balance at a scale: the record
\* with the formatter's text, or the formatter's panic
Formatted24(symbol, raw, decimals) ==
    LET f == format_with_decimals(raw, decimals) IN
    IF f = Panic THEN Panic
    ELSE Ok([symbol |-> symbol, raw |-> to_string(raw), decimals |-> decimals,
             formatted |-> f.val])

\* C24, no token: one read, the holder's native balance; a failed read gives an
\* error; otherwise symbol "ETH", decimals 18, the formatter's text at 18.
NativeBalance(p) ==
    /\ reads[p] = <<Read("get_balance", loc[p].a1, NoArgs)>>
    /\ pc[p] \in {"done", "panicked"} =>
           /\ Len(loc[p].replies) = 1
           /\ IF loc[p].replies[1] = None THEN IsErr(result[p])
              ELSE result[p] = Formatted24("ETH", loc[p].replies[1].val, 18)

\* C24, a token: decimals, symbol, balanceOf(holder) in that order on the token;
\* a failed decimals or balance read gives an error and no later read; a failed
\* symbol read gives the label "ERC20"; the text is the formatter's at the
\* token's decimals.
TokenBalance(p) ==
    LET t  == loc[p].token.val
        rs == <<Read("decimals", t, NoArgs), Read("symbol", t, NoArgs),
                Read("balance_of", t, [owner |-> loc[p].a1])>>
        n  == Len(reads[p])
        got == loc[p].replies
    IN  /\ n \in 1..3
        /\ reads[p] = SubSeq(rs, 1, n)
        /\ pc[p] \in {"done", "panicked"} =>
               /\ Len(got) = n
               /\ IF got[n] = None
                  THEN n \in {1, 3} /\ IsErr(result[p])
                  ELSE /\ n = 3
                       /\ result[p] = Formatted24(IF got[2] = None THEN "ERC20" ELSE got[2].val,
                                                  got[3].val, got[1].val)
        /\ \A i \in 1..Len(got) : (got[i] = None /\ i # 2) => Returned(p) /\ n = i

\* C24: resolve_balance dispatches on the token argument: without a token it is
\* the native lookup (one read, "ETH", 18 decimals), with a token the ERC-20
\* lookup (decimals, symbol, balanceOf; "ERC20" for a failed symbol read; an
\* error for a failed decimals or balance read); in both the text returned is
\* the formatter's for the raw balance at those decimals.
C24_BalanceDispatch ==
    \A p \in Procs :
        Balancing(p) =>
            IF req[p].params.token = None THEN NativeBalance(p) ELSE TokenBalance(p)

\* C24 witness: a token balance was returned under the fallback label, with a
\* fraction in its text.
C24_TokenBalanceReturned ==
    \E p \in Procs :
        /\ Balancing(p)
        /\ Returned(p)
        /\ IsOk(result[p])
        /\ result[p].val.symbol = "ERC20"
        /\ result[p].val.decimals = 6
        /\ HasDot(result[p].val.formatted)

\* the symbols of reg that equal input up to case
SymbolsLike(reg, input) ==
    {s \in DOMAIN reg.by_symbol : to_uppercase(s) = to_uppercase(input)}

\* what a token reference has to resolve to against reg
Resolved25(input, reg) ==
    IF input \in Addresses THEN Ok(input)
    ELSE IF SymbolsLike(reg, input) = {} THEN Err("InvalidInput", input)
    ELSE Ok(reg.by_symbol[CHOOSE s \in SymbolsLike(reg, input) : TRUE].address)

\* task p has resolved the strings of its get_balance request
BalanceResolved(p) ==
    /\ req[p].op = "get_balance"
    /\ loc[p].snap # None
    /\ pc[p] # "bal_start"

\* C25: a reference that parses as an address resolves to that address; any
\* other string resolves to the address of the snapshot's record whose symbol
\* equals it up to case, and without such a record the request fails with
\* InvalidInput before any read.
C25_ReferenceResolution ==
    \A p \in Procs :
        BalanceResolved(p) =>
            LET holder == Resolved25(req[p].params.address, Snapshot(p))
                token  == IF req[p].params.token = None THEN Ok(None)
                          ELSE LET t == Resolved25(req[p].params.token.val, Snapshot(p))
                               IN  IF IsErr(t) THEN t ELSE Ok(Some(t.val))
            IN  IF IsErr(holder) \/ IsErr(token)
                THEN /\ Returned(p)
                     /\ IsErr(result[p])
                     /\ result[p].kind = "InvalidInput"
                     /\ reads[p] = <<>>
                ELSE /\ loc[p].a1 = holder.val
                     /\ loc[p].token = token.val
                     /\ reads[p] # <<>>
                     /\ reads[p][1].target = IF token.val = None THEN holder.val ELSE token.val.val

\* C25 witness: the holder was given as a lower-case symbol and the token in
\* mixed case, and both resolved to the records' addresses.
C25_SymbolsResolved ==
    \E p \in Procs :
        /\ BalanceResolved(p)
        /\ req[p].params.address = "weth"
        /\ req[p].params.token = Some("Dai")
        /\ loc[p].a1 = ADDR_WETH
        /\ loc[p].token = Some(ADDR_DAI)

\* the lines the server has consumed that are not blank
Consumed == SelectSeq(SubSeq(stdio.input, 1, stdio.pos), LAMBDA l : ~l.blank)

\* the response r answers the line l: the request's id; a null id and -32700
\* for a line that does not parse; -32601 for an unknown method
Answers(r, l) ==
    IF l.parse = None
    THEN r.id = JsonNull /\ r.error # None /\ r.error.val.code = -32700
    ELSE /\ r.id = l.parse.val.id
         /\ l.parse.val.method \notin {"get_balance", "get_token_price", "swap_tokens"}
                => r.error # None /\ r.error.val.code = -32601

\* C26: the server answers the non-blank lines one at a time and in order: when
\* it is about to read, or has ended at end of file, every non-blank line
\* consumed has exactly one response; while a line is handled only it lacks
\* one; each response carries its line's id (null and -32700 for a parse
\* error, -32601 for an unknown method); and the loop ends at end of file or on
\* an I/O error only.
C26_OneResponsePerLine ==
    /\ Len(stdio.output) \in {Len(Consumed) - 1, Len(Consumed)}
    /\ pc[1] \in {"srv_read", "srv_eof"} => Len(stdio.output) = Len(Consumed)
    /\ \A i \in 1..Len(stdio.output) : Answers(stdio.output[i], Consumed[i])
    /\ pc[1] = "srv_eof" => stdio.pos = Len(stdio.input)
    /\ pc[1] # "panicked"

(***************************************************************************)
(* C27.  A configuration returned by AppConfig::load never has a zero      *)
(* default_chain_id, whether it came from the config file or from the      *)
(* environment variables and whatever chain id the user wrote: zero is     *)
(* replaced by 1.                                                          *)
(***************************************************************************)
Loaded == req[1].op = "load" /\ pc[1] = "done" /\ IsOk(result[1])

C27_ChainIdNeverZero ==
    Loaded => result[1].val.default_chain_id # U256_ZERO

\* the part of the statement the file branch carries: a zero chain id in
\* the config file is returned as 1
C27_FileZeroBecomesDefault ==
    Loaded /\ req[1].params.file.exists =>
        /\ result[1].val.default_chain_id # U256_ZERO
        /\ req[1].params.file.raw.default_chain_id = Some(U256_ZERO) =>
               result[1].val.default_chain_id = U256_from(DEFAULT_CHAIN_ID)

(***************************************************************************)
(* C28.  Enriching an unknown address never changes what a symbol that is  *)
(* already registered resolves to: whatever symbol the new contract        *)
(* reports, resolve_symbol, info_by_symbol and quote_token (USDC for USD,   *)
(* WETH for ETH) keep returning the same address and the same feeds.       *)
(***************************************************************************)
SameTarget(before, after) ==
    \/ before = None /\ after = None
    \/ /\ before # None /\ after # None
       /\ after.val.address = before.val.address
       /\ after.val.chainlink_feeds = before.val.chainlink_feeds

C28_SymbolsKeepTheirTarget ==
    [][/\ \A s \in DOMAIN registry.by_symbol :
             /\ resolve_symbol(registry', s) = resolve_symbol(registry, s)
             /\ SameTarget(info_by_symbol(registry, s), info_by_symbol(registry', s))
       /\ \A q \in QuoteCurrency :
             SameTarget(quote_token(registry, q), quote_token(registry', q))]_vars

(***************************************************************************)
(* C29.  Whatever the interleaving of ensure_registry_token calls: for an  *)
(* address that is registered the call issues no read and leaves the       *)
(* registry as it is; an unknown address is fetched and inserted at most   *)
(* once (two tasks are never both between the fetch and the insert, and a  *)
(* step that changes the registry adds exactly one address that was not    *)
(* there); the record of an address never changes once it is inserted.     *)
(***************************************************************************)
\* task p is in ensure_token, between its fetch and its insert
Fetching(p) == pc[p] \in {"ens_decimals", "ens_symbol"}

\* task p is in ensure_token under the write guard
Ensuring(p) == pc[p] \in {"ens_held", "ens_decimals", "ens_symbol"}

OneFetcher == \A p, q \in Procs : Fetching(p) /\ Fetching(q) => p = q

C29_EnrichedAtMostOnce ==
    [][/\ OneFetcher /\ OneFetcher'
       /\ \A p \in Procs :
             pc[p] = "ens_held" /\ loc[p][Step(p).slot] \in DOMAIN registry.by_address =>
                 /\ registry' = registry
                 /\ reads'[p] = reads[p]
                 /\ ~Fetching(p)'
       /\ \A p \in Procs :
             Ensuring(p) => \A q \in Procs \ {p} : ~Ensuring(q)
       /\ registry' # registry =>
             \E p \in Procs :
                LET a == loc[p][Step(p).slot] IN
                /\ pc[p] = "ens_symbol"
                /\ a \notin DOMAIN registry.by_address
                /\ DOMAIN registry'.by_address = DOMAIN registry.by_address \cup {a}
       /\ \A a \in DOMAIN registry.by_address :
             /\ a \in DOMAIN registry'.by_address
             /\ registry'.by_address[a] = registry.by_address[a]]_vars

\* both tasks asked for the price of the unregistered address: it is
\* registered, one task read its symbol and the other issued no metadata read
C29_SecondEnrichmentSkipped ==
    /\ \A p \in Procs : req[p].op = "get_token_price" /\ req[p].params.base = ADDR_NEW
    /\ \A p \in Procs : pc[p] \notin {"idle", "ri", "ens", "ens_wait", "ens_held", "ens_decimals", "ens_symbol"}
    /\ ADDR_NEW \in DOMAIN registry.by_address
    /\ \E p \in Procs :
          /\ \E i \in 1..Len(reads[p]) : reads[p][i] = Read("symbol", ADDR_NEW, NoArgs)
          /\ \A q \in Procs \ {p} :
                \A i \in 1..Len(reads[q]) : reads[q][i].kind \notin {"decimals", "symbol"}

(***************************************************************************)
(* C30.  The lock protocol is free of deadlock and every guard is dropped: *)
(* no task asks for the lock while it holds it, a read guard is held only  *)
(* for the copy, and, the reads returning, every request that was taken    *)
(* eventually completes, without the lock, on every path.                  *)
(***************************************************************************)
\* task p is asking for the lock
Asking(p) == pc[p] \in {"snapshot", "snap_wait", "ens", "ens_wait"}

Queued(p) == \E i \in 1..Len(lock.queue) : lock.queue[i] = p

InRequest(p) == pc[p] \notin {"idle", "done", "panicked"}

GuardDiscipline ==
    \A p \in Procs :
        /\ Asking(p) => ~Holds(p)
        /\ p \in lock.readers => pc[p] = "snap_held"
        /\ lock.writer = p => Ensuring(p)
        /\ ~InRequest(p) => ~Holds(p) /\ ~Queued(p)

C30_RequestsCompleteLockFree ==
    /\ []GuardDiscipline
    /\ \A p \in Procs : InRequest(p) ~> (pc[p] = "done" /\ ~Holds(p))

\* what the lock protocol itself guarantees: every request that was taken
\* leaves the service, by returning or by unwinding, without the lock
C30_RequestsEndLockFree ==
    /\ []GuardDiscipline
    /\ \A p \in Procs : InRequest(p) ~> (~InRequest(p) /\ ~Holds(p))
    /\ []((\A p \in Procs : ~InRequest(p)) => lock = LockFree)

=============================================================================
